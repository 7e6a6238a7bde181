------------------------------- MODULE Backup -------------------------------
(***************************************************************************)
(* Backups: an export reads the tables one after the other, an import puts *)
(* a file back, over the rows that are there (merge) or instead of them    *)
(* (replace_existing), while tokens are refreshed and revoked and client   *)
(* secrets are rotated (src/repositories.ts:1183-1513, src/app.ts:1610-    *)
(* 1660, 2233-2330).                                                       *)
(*                                                                         *)
(* Rows.  Of the 26 sections, those whose rows depend on one another: the  *)
(* secrets of one client with their rotation parents, one refresh-token    *)
(* family, and its tokens.  A row's id is a uuid, so an id is never used   *)
(* twice, not even when a restore has deleted its row.                     *)
(*                                                                         *)
(* Concurrency.  An export runs REPEATABLE READ: what it reads is what was *)
(* committed when it began.  An import validates its file first; then one  *)
(* transaction deletes, inserts and updates, with the rows of the family   *)
(* locked from its first statement about them on, so that it is one step.  *)
(* A unique index, a foreign key or a lost connection rolls it all back.   *)
(***************************************************************************)
EXTENDS Administrators, Integers, FiniteSets, Sequences

CONSTANTS MaxIds,         \* bound: ids of tokens, and ids of secrets
          MaxFiles        \* bound: files exported

ASSUME BackupBound == MaxIds \in Nat \ {0} /\ MaxFiles \in Nat

VARIABLES tables,         \* the sections, as committed
          usedIds,        \* ids ever given to a row of a section
          files,          \* what was exported
          overlaid        \* history: a merge has left rows its file does not have

backupVars == <<tables, usedIds, files, overlaid, op>>

Id == 1..MaxIds
NoRow == [status |-> "none", parent |-> 0, generation |-> 0]
NewRow(status, parent, generation) ==
  [status |-> status, parent |-> parent, generation |-> generation]
NoFamilyRow == [status |-> "none", current_generation |-> 0]

\* The order in which exportBackup reads them.
Sections == <<"secrets", "family", "tokens">>
Lineages == {"secrets", "tokens"}
EmptyTables == [secrets |-> [i \in Id |-> NoRow], family |-> NoFamilyRow,
                tokens |-> [i \in Id |-> NoRow]]
Present(rows) == {i \in Id : rows[i].status # "none"}

BackupInit ==
  /\ tables = [secrets |-> [i \in Id |-> IF i = 1 THEN NewRow("active", 0, 0) ELSE NoRow],
               family |-> [status |-> "active", current_generation |-> 0],
               tokens |-> [i \in Id |-> IF i = 1 THEN NewRow("current", 0, 0) ELSE NoRow]]
  /\ usedIds = [s \in Lineages |-> {1}]
  /\ files = {}
  /\ overlaid = FALSE
  /\ op = [a \in Admin |-> NoOp]

-----------------------------------------------------------------------------
(* Validation of a file.                                                   *)

\* validateCredentialLineage: parents are rows of the file, and no chain of
\* them comes back to where it began: no rows have all their parents among them.
SecretsValid(rows) ==
  /\ \A i \in Present(rows) : rows[i].parent \in Present(rows) \cup {0}
  /\ \A S \in (SUBSET Present(rows)) \ {{}} : \E i \in S : rows[i].parent \notin S

\* validateAndSortRefreshLineage: the generations are exactly 0..current, and
\* the parent of each is the one before.
TokensValid(family, rows) ==
  LET T == Present(rows)
  IN  IF family.status = "none" THEN T = {}
      ELSE /\ Cardinality(T) = family.current_generation + 1
           /\ {rows[i].generation : i \in T} = 0..family.current_generation
           /\ \A i \in T : IF rows[i].generation = 0 THEN rows[i].parent = 0
                           ELSE /\ rows[i].parent \in T
                                /\ rows[rows[i].parent].generation = rows[i].generation - 1

Validates(file) == SecretsValid(file.secrets) /\ TokensValid(file.family, file.tokens)

\* What the indexes of migrations/005 demand of the tokens.
TokensUnique(rows) ==
  \A i, j \in Present(rows) : i # j => /\ rows[i].generation # rows[j].generation
                                       /\ ~(rows[i].status = "current" /\ rows[j].status = "current")

-----------------------------------------------------------------------------
(* Exports and imports.                                                    *)

ExportBegin(a) ==
  /\ Begins(a, [kind |-> "export", snapshot |-> tables, file |-> <<>>])
  /\ UNCHANGED <<tables, usedIds, files, overlaid>>

\* Mutant of SectionRead: READ COMMITTED, every SELECT sees what is new.
SectionNow(a, s) == tables[s]
SectionRead(a, s) == op[a].snapshot[s]

ExportSection(a) ==
  LET n == Cardinality(DOMAIN op[a].file) + 1
  IN  /\ Doing(a, "export")
      /\ n <= Len(Sections)
      /\ Goes(a, [op[a] EXCEPT !.file = [s \in DOMAIN op[a].file \cup {Sections[n]} |->
                      IF s = Sections[n] THEN SectionRead(a, s) ELSE op[a].file[s]]])
      /\ UNCHANGED <<tables, usedIds, files, overlaid>>

ExportEnd(a) ==
  /\ Doing(a, "export")
  /\ Cardinality(DOMAIN op[a].file) = Len(Sections)
  /\ Cardinality(files \cup {op[a].file}) <= MaxFiles
  /\ files' = files \cup {op[a].file}
  /\ Ends(a)
  /\ UNCHANGED <<tables, usedIds, overlaid>>

ExportFails(a) == Fails(a) /\ UNCHANGED <<tables, usedIds, files, overlaid>>

\* upsert: INSERT ... ON CONFLICT (id) DO UPDATE, row by row.
Upserted(old, new) == [i \in Id |-> IF new[i].status = "none" THEN old[i] ELSE new[i]]
Overlay(file) == [secrets |-> Upserted(tables.secrets, file.secrets),
                  family |-> IF file.family.status = "none" THEN tables.family ELSE file.family,
                  tokens |-> Upserted(tables.tokens, file.tokens)]
Leaves(file) == \E s \in Lineages : Present(tables[s]) \ Present(file[s]) # {}

ImportMerge(a, file) ==
  /\ op[a] = NoOp
  /\ Validates(file)
  /\ TokensUnique(Overlay(file).tokens)
  /\ tables' = Overlay(file)
  /\ overlaid' = (overlaid \/ Leaves(file))
  /\ UNCHANGED <<usedIds, files, op>>

ImportReplace(a, file) ==
  /\ op[a] = NoOp
  /\ Validates(file)
  /\ tables' = file
  /\ UNCHANGED <<usedIds, files, overlaid, op>>

\* A file of before the OAuth tables has none of their sections: a merge leaves
\* them alone, a replace empties them.
ImportLegacyOnly(a) ==
  /\ op[a] = NoOp
  /\ tables' = EmptyTables
  /\ UNCHANGED <<usedIds, files, overlaid, op>>

-----------------------------------------------------------------------------
(* Everybody else.                                                         *)

FreshId(s) == {i \in Id : i \notin usedIds[s] /\ \A j \in Id : j < i => j \in usedIds[s]}

\* A refresh; the unique index refuses a generation that is there already.
RefreshRotates(i) ==
  LET family == tables.family
      next == family.current_generation + 1
  IN  /\ family.status = "active"
      /\ tables.tokens[i].status = "current"
      /\ tables.tokens[i].generation = family.current_generation
      /\ \A j \in Present(tables.tokens) : tables.tokens[j].generation # next
      /\ \E n \in FreshId("tokens") :
            /\ tables' = [tables EXCEPT
                  !.family = [status |-> "active", current_generation |-> next],
                  !.tokens = [@ EXCEPT ![i].status = "consumed",
                                       ![n] = NewRow("current", i, next)]]
            /\ usedIds' = [usedIds EXCEPT !["tokens"] = @ \cup {n}]
      /\ UNCHANGED <<files, overlaid, op>>

\* A replayed token, or the client's own revocation.
FamilyRevoked ==
  /\ tables.family.status = "active"
  /\ tables' = [tables EXCEPT
        !.family.status = "revoked",
        !.tokens = [i \in Id |-> IF @[i].status = "current"
                                 THEN NewRow("revoked", @[i].parent, @[i].generation) ELSE @[i]]]
  /\ UNCHANGED <<usedIds, files, overlaid, op>>

SecretRotates(i) ==
  /\ tables.secrets[i].status = "active"
  /\ \A j \in Id : tables.secrets[j].status = "active" => j <= i
  /\ \E n \in FreshId("secrets") :
        /\ tables' = [tables EXCEPT !.secrets =
              [j \in Id |-> IF j = n THEN NewRow("active", i, 0)
                            ELSE IF @[j].status = "active"
                            THEN NewRow("retired", @[j].parent, 0) ELSE @[j]]]
        /\ usedIds' = [usedIds EXCEPT !["secrets"] = @ \cup {n}]
  /\ UNCHANGED <<files, overlaid, op>>

BackupNext ==
  \/ \E a \in Admin : \/ ExportBegin(a) \/ ExportSection(a) \/ ExportEnd(a) \/ ExportFails(a)
                      \/ \E file \in files : ImportMerge(a, file) \/ ImportReplace(a, file)
                      \/ ImportLegacyOnly(a)
  \/ \E i \in Id : RefreshRotates(i) \/ SecretRotates(i)
  \/ FamilyRevoked

BackupSpec == BackupInit /\ [][BackupNext]_backupVars

-----------------------------------------------------------------------------
(* Properties.                                                             *)

\* The sections hold what their columns may, within the unique indexes.
BackupTypeOK ==
  /\ \A s \in Lineages : \A i \in Present(tables[s]) :
        /\ tables[s][i].parent \in Present(tables[s]) \cup {0}
        /\ i \in usedIds[s]
  /\ tables.family.status \in {"none", "active", "revoked"}
  /\ TokensUnique(tables.tokens)
  /\ Cardinality(files) <= MaxFiles

\* A backup taken while tokens are refreshed and secrets rotated can be imported:
\* the lineages in it are those of one moment and pass the validators.  Only a
\* merge import laid over rows that its file does not have may spoil what is
\* exported after it (src/repositories.ts:1183-1185, 130-250).
ExportsValidate == ~overlaid => \A file \in files : Validates(file)

\* An import leaves families whose generations are exactly 0..current_generation
\* (docs/LEGACY_COMPATIBILITY.md:104).
LineageSurvivesImport == TokensValid(tables.family, tables.tokens)
=============================================================================
