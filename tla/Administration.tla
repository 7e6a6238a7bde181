--------------------------- MODULE Administration ---------------------------
(***************************************************************************)
(* Everything administrators do, beside the people who log in, sign in and *)
(* call meanwhile: the grants of a legacy tool (LegacyGrants), the secrets *)
(* of a client or resource (Credentials), the registry (Registration), the *)
(* native grants (NativeGrants), and backups (Backup).                     *)
(*                                                                         *)
(* The five topics share the administrators and their locks, and no row:   *)
(* an operation on one topic neither reads nor locks what another writes,  *)
(* save where the module of the reader has the writer's steps as well      *)
(* (ChangeOffer of NativeGrants stands for Registration's).  So a topic is *)
(* chosen once, and interleaving two of them would show nothing new.       *)
(***************************************************************************)
EXTENDS LegacyGrants, Credentials, Registration, NativeGrants, Backup

VARIABLE topic          \* what the administrators are busy with

grantRows == <<bootstrap, known, grants, requests, reviews, login>>
credentialRows == <<owner, credentials, rotation, caller>>
registrationRows == <<agenda, registry>>
nativeRows == <<today, people, offered, native, signin>>
backupRows == <<tables, usedIds, files, overlaid>>

\* What is not the topic starts, and stays, in one way only.
OneWay ==
  /\ topic # "grants" => bootstrap = {}
  /\ topic # "credentials" => owner = [kind |-> "client", status |-> "active"]
  /\ topic # "registration" => agenda = CHOOSE work \in Agendas : TRUE
  /\ topic # "native" => people = [h \in Human |-> "none"]

administrationVars ==
  <<topic, grantRows, credentialRows, registrationRows, nativeRows, backupRows, op>>

AdministrationInit ==
  /\ topic \in {"grants", "credentials", "registration", "native", "backup"}
  /\ GrantsInit /\ CredentialsInit /\ RegistrationInit /\ NativeInit /\ BackupInit
  /\ OneWay

AdministrationNext ==
  /\ UNCHANGED topic
  /\ \/ /\ topic = "grants" /\ GrantsNext
        /\ UNCHANGED <<credentialRows, registrationRows, nativeRows, backupRows>>
     \/ /\ topic = "credentials" /\ CredentialsNext
        /\ UNCHANGED <<grantRows, registrationRows, nativeRows, backupRows, op>>
     \/ /\ topic = "registration" /\ RegistrationNext
        /\ UNCHANGED <<grantRows, credentialRows, nativeRows, backupRows>>
     \/ /\ topic = "native" /\ NativeNext
        /\ UNCHANGED <<grantRows, credentialRows, registrationRows, backupRows>>
     \/ /\ topic = "backup" /\ BackupNext
        /\ UNCHANGED <<grantRows, credentialRows, registrationRows, nativeRows>>

AdministrationSpec == AdministrationInit /\ [][AdministrationNext]_administrationVars

\* The rows of every topic hold what the code can put there.
AdministrationTypeOK ==
  GrantsTypeOK /\ CredentialsTypeOK /\ RegistrationTypeOK /\ NativeTypeOK /\ BackupTypeOK
=============================================================================
