------------------------------ MODULE Lockfile ------------------------------
(***************************************************************************)
(* Lockfile (src/rust/lockfile.rs): a process holds a lockfile in memory,  *)
(* which it reads from .zpkg.lock, changes with the upsert operations or   *)
(* assembles itself (the fields are public), and writes back.  Anything    *)
(* may happen to the file in between: a merge, an edit, another process.   *)
(*                                                                         *)
(* The four arrays are the entries of `Sections`.  A key stands for the    *)
(* identity of an entry in its array (org/name for packages and tools), in *)
(* the order the code sorts by; `sound` for every check of an entry that   *)
(* concerns no other entry and neither its digest nor its revision.        *)
(***************************************************************************)
EXTENDS Arrangements

CONSTANTS
    Keys,               \* identities, as integers in sort order
    Digests,            \* spellings of a digest
    CanonicalDigests,   \* those of 64 lowercase hex digits, not all zero
    Revisions,          \* spellings of a revision
    ImmutableRevisions, \* those is_immutable_vcs_revision accepts
    ArtifactRevision,   \* artifact_revision: a revision for each digest
    NoRevision,         \* the absence of a vcs_commit
    Versions,           \* lockfile versions met
    Offered,            \* entries a caller may upsert, by section
    Documents,          \* what may be found in the file
    Assembled,          \* lockfiles a caller may assemble
    NoFile, Garbage,    \* a missing file; one that is not a TOML lockfile
    NoEntry             \* the absence of an entry

CurrentVersion == 1

LockedSections == {"packages", "tools"}
RecordSections == {"native_dependencies", "nix_adapters"}
Sections == LockedSections \cup RecordSections

LockedPackage ==
    [key : Keys, digest : Digests, vcs_commit : Revisions \cup {NoRevision},
     sound : BOOLEAN]

(* A NativeDependencyLock or a NixAdapterRecord; its digest tells apart    *)
(* two resolutions of one key.                                             *)
ProvenanceRecord == [key : Keys, digest : Digests, sound : BOOLEAN]

Entries == LockedPackage \cup ProvenanceRecord

EntryOf(section) ==
    IF section \in LockedSections THEN LockedPackage ELSE ProvenanceRecord

(* A value of the Rust type: a version and four vectors. *)
IsLockfile(lock) ==
    /\ lock \in [version : Versions, entries : [Sections -> Seq(Entries)]]
    /\ \A section \in Sections :
          lock.entries[section] \in Seq(EntryOf(section))

ASSUME LockfileAssumption ==
    /\ Keys \subseteq Int
    /\ CanonicalDigests \subseteq Digests
    /\ ImmutableRevisions \subseteq Revisions
    /\ NoRevision \notin Revisions
    /\ ArtifactRevision \in [Digests -> Revisions]
    /\ \A d \in CanonicalDigests : ArtifactRevision[d] \in ImmutableRevisions
    /\ \A section \in Sections : Offered[section] \subseteq EntryOf(section)
    /\ \A lock \in Documents \cup Assembled : IsLockfile(lock)
    /\ CurrentVersion \in Versions
    /\ ~IsLockfile(NoFile) /\ ~IsLockfile(Garbage)
    /\ NoEntry \notin Entries
    /\ Garbage \notin [Sections -> [Keys -> Entries \cup {NoEntry}]]

VARIABLES
    memory,     \* the process's lockfile
    disk,       \* the contents of .zpkg.lock
    written,    \* the program was the last to change the file
    result      \* of the last operation: its error, "ok" if it has none

vars == <<memory, disk, written, result>>

Results == {"ok", "toml", "version", "revision", "package", "tool", "conflict",
            "native_dependency", "nix_adapter"}

-----------------------------------------------------------------------------
(* The first entry with a key: find, find_tool, find_native_dependency. *)
Find(entries, key) ==
    LET at == {i \in 1..Len(entries) : entries[i].key = key}
    IN  IF at = {} THEN NoEntry
        ELSE entries[CHOOSE i \in at : \A j \in at : i <= j]

(* The positions of a list, by the keys of their entries.  Those of one    *)
(* key keep their order: Vec::sort_by and sort_by_key are stable.          *)
ByKey(entries) ==
    {pair \in (1..Len(entries)) \X (1..Len(entries)) :
        \/ entries[pair[1]].key < entries[pair[2]].key
        \/ entries[pair[1]].key = entries[pair[2]].key /\ pair[1] < pair[2]}

Sorted(entries) == Arranged(entries, 1..Len(entries), ByKey(entries))

(* Vec::retain: the entries with another key. *)
Retained(entries, key) ==
    Arranged(entries, {i \in 1..Len(entries) : entries[i].key # key},
             ByPosition(entries))

(* retain, push, sort *)
Upserted(entries, entry) ==
    Sorted(Append(Retained(entries, entry.key), entry))

(* validate_locked_entries, validate_native_dependencies and               *)
(* validate_nix_adapters: a bad entry, or a key met twice.                 *)
KeysAreDistinct(entries) ==
    \A i, j \in 1..Len(entries) : entries[i].key = entries[j].key => i = j

PackageIsValid(package) ==
    /\ package.sound
    /\ package.digest \in CanonicalDigests
    /\ package.vcs_commit \in ImmutableRevisions

Acceptable(section, entry) ==
    IF section \in LockedSections THEN PackageIsValid(entry) ELSE entry.sound

SectionIsValid(lock, section) ==
    LET entries == lock.entries[section]
    IN  /\ KeysAreDistinct(entries)
        /\ \A i \in 1..Len(entries) : Acceptable(section, entries[i])

(* Mutant: each array is only checked against itself. *)
NeverConflicting(lock) == FALSE

(* The cross-array rule of validate_tools. *)
Conflicting(lock) ==
    \E i \in 1..Len(lock.entries["tools"]) :
        Find(lock.entries["packages"], lock.entries["tools"][i].key) # NoEntry

(* The validations of parse and to_toml_string, in their order. *)
Problem(lock) ==
    IF lock.version # CurrentVersion THEN "version"
    ELSE IF ~SectionIsValid(lock, "packages") THEN "package"
    ELSE IF ~SectionIsValid(lock, "tools") THEN "tool"
    ELSE IF Conflicting(lock) THEN "conflict"
    ELSE IF ~SectionIsValid(lock, "native_dependencies")
         THEN "native_dependency"
    ELSE IF ~SectionIsValid(lock, "nix_adapters") THEN "nix_adapter"
    ELSE "ok"

(* normalize_missing_package_revisions: packages and tools that carry no   *)
(* revision get the one their digest implies, which it must be fit for.    *)
Explicit(section, entry) ==
    IF section \in LockedSections /\ entry.vcs_commit = NoRevision
    THEN [entry EXCEPT !.vcs_commit = ArtifactRevision[entry.digest]]
    ELSE entry

Derivable(lock) ==
    \A section \in LockedSections :
        \A i \in 1..Len(lock.entries[section]) :
            LET entry == lock.entries[section][i]
            IN  entry.vcs_commit = NoRevision =>
                    entry.digest \in CanonicalDigests

Normalized(lock) ==
    [lock EXCEPT !.entries = [section \in Sections |->
        [i \in 1..Len(lock.entries[section]) |->
            Explicit(section, lock.entries[section][i])]]]

(* to_toml_string, on a copy of the lockfile: the error, or the document. *)
WriteProblem(lock) ==
    IF lock.version # CurrentVersion THEN "version"
    ELSE IF ~Derivable(lock) THEN "revision"
    ELSE Problem(Normalized(lock))

(* Mutant: the document keeps the order of the arrays in memory. *)
DocumentUnsorted(lock) == Normalized(lock)

Document(lock) ==
    [lock EXCEPT !.entries = [section \in Sections |->
        Sorted(Normalized(lock).entries[section])]]

-----------------------------------------------------------------------------

(* Lockfile::default() *)
Empty == [version |-> CurrentVersion,
          entries |-> [section \in Sections |-> <<>>]]

Init ==
    /\ memory = Empty
    /\ disk \in Documents \cup {NoFile, Garbage}
    /\ written = FALSE
    /\ result = "ok"

(* Lockfile::parse of the file. *)
Read ==
    /\ disk # NoFile
    /\ result' = IF disk = Garbage THEN "toml" ELSE Problem(disk)
    /\ memory' = IF result' = "ok" THEN disk ELSE memory
    /\ UNCHANGED <<disk, written>>

(* upsert and upsert_tool take any entry. *)
UpsertLocked(section, entry) ==
    /\ section \in LockedSections /\ entry \in Offered[section]
    /\ memory' = [memory EXCEPT !.entries[section] = Upserted(@, entry)]
    /\ result' = "ok"
    /\ UNCHANGED <<disk, written>>

RecordError(section) ==
    IF section = "native_dependencies" THEN "native_dependency"
                                       ELSE "nix_adapter"

(* Mutant: the entry is validated once it is in. *)
UpsertRecordUnchecked(section, entry) ==
    /\ section \in RecordSections /\ entry \in Offered[section]
    /\ memory' = [memory EXCEPT !.entries[section] = Upserted(@, entry)]
    /\ result' = IF entry.sound THEN "ok" ELSE RecordError(section)
    /\ UNCHANGED <<disk, written>>

(* upsert_native_dependency and upsert_nix_adapter validate it first. *)
UpsertRecord(section, entry) ==
    /\ section \in RecordSections /\ entry \in Offered[section]
    /\ IF entry.sound
       THEN /\ memory' = [memory EXCEPT
                              !.entries[section] = Upserted(@, entry)]
            /\ result' = "ok"
       ELSE /\ result' = RecordError(section)
            /\ UNCHANGED memory
    /\ UNCHANGED <<disk, written>>

(* The document of to_toml_string, if it returns one, goes to the file. *)
Write ==
    /\ result' = WriteProblem(memory)
    /\ IF result' = "ok"
       THEN disk' = Document(memory) /\ written' = TRUE
       ELSE UNCHANGED <<disk, written>>
    /\ UNCHANGED memory

(* The caller builds a lockfile, or changes the fields of the one it has. *)
Assemble(lock) ==
    /\ lock \in Assembled
    /\ memory' = lock
    /\ result' = "ok"
    /\ UNCHANGED <<disk, written>>

(* Something else changes, removes or replaces the file. *)
Edit(document) ==
    /\ document \in Documents \cup {NoFile, Garbage}
    /\ disk' = document
    /\ written' = FALSE
    /\ result' = "ok"
    /\ UNCHANGED memory

Next ==
    \/ Read
    \/ Write
    \/ \E section \in Sections : \E entry \in Offered[section] :
          UpsertLocked(section, entry) \/ UpsertRecord(section, entry)
    \/ \E lock \in Assembled : Assemble(lock)
    \/ \E document \in Documents \cup {NoFile, Garbage} : Edit(document)

Spec == Init /\ [][Next]_vars

-----------------------------------------------------------------------------
(* A file the program wrote is readable, lists each array in strict key    *)
(* order, and reading it and writing it again changes nothing:             *)
(* to_toml_string normalizes before it validates and sorts last.           *)
WrittenFileIsCanonical ==
    written =>
        /\ Problem(disk) = "ok" /\ Document(disk) = disk
        /\ \A section \in Sections :
              LET entries == disk.entries[section]
              IN  \A i, j \in 1..Len(entries) :
                      i < j => entries[i].key < entries[j].key

(* An operation that fails leaves the lockfile and the file as they were:  *)
(* records are validated before they displace another, and the writer      *)
(* normalizes a copy (upsert_native_dependency, to_toml_string, parse).    *)
FailureChangesNothing ==
    [][result' # "ok" => UNCHANGED <<memory, disk>>]_vars

(* The vectors, searched for the first match and edited by retain, push    *)
(* and sort, behave as maps from identities to pins, and what is written   *)
(* is what is read back, with every revision explicit.                     *)
Pins(lock) ==
    [section \in Sections |->
        [key \in Keys |-> Find(lock.entries[section], key)]]

Contents(document) ==
    IF document \in {NoFile, Garbage} THEN Garbage
    ELSE IF Problem(document) = "ok" THEN Pins(document) ELSE Garbage

Maps == INSTANCE PinnedLock WITH
            pins <- Pins(memory), file <- Contents(disk),
            Exclusive <- LockedSections,
            NoPin <- NoEntry, Unreadable <- Garbage,
            Built <- {Pins(lock) : lock \in Assembled},
            Foreign <- {Contents(document) :
                           document \in Documents \cup {NoFile, Garbage}}

ImplementsPinnedLock == Maps!Spec
=============================================================================
