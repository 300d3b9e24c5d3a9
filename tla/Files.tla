-------------------------------- MODULE Files --------------------------------
(***************************************************************************)
(* The files of one pull request: GitHub lists them in pages, between      *)
(* which a push may come (app/github/client.py), and a complete listing is *)
(* applied to the stored rows, which follow renames and are never deleted  *)
(* (app/services/pr_file_service.py, pr_analysis_service.py).  Deliveries  *)
(* of the pull request take turns (Ingestion has the lock).                *)
(*                                                                         *)
(* GitHub lists files by name, so names are numbers.  A file is its name,  *)
(* the name it was renamed from (0: none) and its count of additions; the  *)
(* other columns are written with these.                                   *)
(***************************************************************************)
EXTENDS Integers, FiniteSets, SequencesExt

CONSTANTS
  Diffs,        \* the sets of files the pull request may consist of
  PageSize,     \* files per page (100)
  FileLimit,    \* GITHUB_PR_FILE_LIMIT (3000)
  MaxPushes     \* bound: pushes

Changed == [name : Nat \ {0}, previous : Nat, additions : Nat]

(* A diff names a file once, and what was renamed is gone from it.         *)
Diff(files) ==
  /\ files \subseteq Changed /\ IsFiniteSet(files)
  /\ \A f, g \in files : /\ f.name = g.name => f = g
                         /\ f.previous # g.name
ASSUME DiffsAssumption == \A files \in Diffs : Diff(files)

(* The limit is a number of full pages.                                    *)
ASSUME PagesAssumption ==
  /\ PageSize \in Nat \ {0} /\ FileLimit \in Nat \ {0} /\ MaxPushes \in Nat
  /\ FileLimit = (FileLimit \div PageSize) * PageSize

VARIABLES
  diff,       \* GitHub: the files of the pull request
  pushes,
  listing,    \* a delivery's listing: pages so far
  fileRow,    \* sequence of rows by id: pull_request_files
  metrics,    \* the pr_metrics row, if there is one
  applied     \* the diff last applied, and whether nothing was pushed meanwhile

filesVars == <<diff, pushes, listing, fileRow, metrics, applied>>

NoListing == [page |-> 0, items |-> <<>>, of |-> {}, quiet |-> TRUE, state |-> "none"]
FileRow == [file : Changed, current : BOOLEAN]

FilesInit ==
  /\ diff \in Diffs /\ pushes = 0
  /\ listing = NoListing
  /\ fileRow = <<>> /\ metrics = {}
  /\ applied = [of |-> {}, quiet |-> TRUE]

PushFiles(files) ==
  /\ pushes < MaxPushes /\ files # diff
  /\ diff' = files /\ pushes' = pushes + 1
  /\ listing' = [listing EXCEPT !.quiet = FALSE]
  /\ UNCHANGED <<fileRow, metrics, applied>>

-----------------------------------------------------------------------------
(* Listing                                                                 *)

StartListing ==
  /\ listing.state # "fetching"
  /\ listing' = [page |-> 1, items |-> <<>>, of |-> diff, quiet |-> TRUE,
                 state |-> "fetching"]
  /\ UNCHANGED <<diff, pushes, fileRow, metrics, applied>>

InOrder(files) ==
  CHOOSE s \in SetToSeqs(files) : \A i, j \in DOMAIN s : i < j => s[i].name < s[j].name
PageOf(files, page) ==
  SubSeq(InOrder(files), (page - 1) * PageSize + 1,
         IF page * PageSize <= Cardinality(files) THEN page * PageSize
         ELSE Cardinality(files))

(* Another page follows a Link header, which a proxy may have stripped, or *)
(* a full page.  One mutant trusts the header alone, one asks until a page *)
(* is empty.                                                               *)
AnotherOnLink(result, link) == link
AnotherUntilEmpty(result, link) == Len(result) > 0
Another(result, link) == link \/ Len(result) = PageSize

FetchPage(stripped) ==
  LET result == PageOf(diff, listing.page)
      items == listing.items \o result
      link == ~stripped /\ listing.page * PageSize < Cardinality(diff)
  IN /\ listing.state = "fetching"
     /\ listing' = [listing EXCEPT
          !.page = @ + 1,
          !.items = items,
          !.state = IF Len(items) >= FileLimit THEN "limit"
                    ELSE IF Another(result, link) THEN "fetching" ELSE "listed"]
     /\ UNCHANGED <<diff, pushes, fileRow, metrics, applied>>

ListingFails ==
  /\ listing.state = "fetching"
  /\ listing' = NoListing
  /\ UNCHANGED <<diff, pushes, fileRow, metrics, applied>>

-----------------------------------------------------------------------------
(* Applying it                                                             *)

RowsNamed(rows, name) == {i \in DOMAIN rows : rows[i].file.name = name}

(* The row a listed file is written to: the one of its name, or that of    *)
(* the name it was renamed from.  One mutant asks for the old name first,  *)
(* one looks among the current rows alone.                                 *)
RowsOfCurrent(rows, f) ==
  {i \in RowsNamed(rows, f.name) : rows[i].current}
RowsOfOldName(rows, f) ==
  IF RowsNamed(rows, f.previous) # {} THEN RowsNamed(rows, f.previous)
  ELSE RowsNamed(rows, f.name)
RowsOf(rows, f) ==
  IF RowsNamed(rows, f.name) # {} THEN RowsNamed(rows, f.name)
  ELSE RowsNamed(rows, f.previous)

(* Rows are updated in the order of their ids, before one is inserted.     *)
Collide(rows, flushed) ==
  \E i, j \in DOMAIN flushed : i < j /\ rows[i].file.name = flushed[j]
Names(rows) == [i \in DOMAIN rows |-> rows[i].file.name]

WriteFile(state, f) ==
  LET found == RowsOf(state.rows, f)
      row == [file |-> f, current |-> TRUE]
      inserted == Append(state.rows, row)
      id == CHOOSE i \in found : TRUE
  IN IF found = {}
     THEN [rows |-> inserted, flushed |-> Names(inserted),
           seen |-> state.seen \cup {Len(inserted)}, names |-> state.names \cup {f.name},
           ok |-> /\ state.ok /\ f.name \notin state.names
                  /\ RowsNamed(state.rows, f.name) = {}
                  /\ ~Collide(state.rows, state.flushed)]
     ELSE [rows |-> [state.rows EXCEPT ![id] = row], flushed |-> state.flushed,
           seen |-> state.seen \cup {id}, names |-> state.names \cup {f.name},
           ok |-> state.ok /\ f.name \notin state.names]

ToWrite(rows) ==
  [rows |-> rows, flushed |-> Names(rows), seen |-> {}, names |-> {}, ok |-> TRUE]
WriteFiles(rows, items) == FoldLeft(WriteFile, ToWrite(rows), items)

(* The mutant keeps files that are no longer listed.                       *)
StillCurrent(row, seen) == row.current
Current(row, seen) == row.current /\ seen
Marked(rows, seen) ==
  [i \in DOMAIN rows |->
     [rows[i] EXCEPT !.current = Current(rows[i], i \in seen)]]

CurrentFiles(rows) == {rows[i].file : i \in {j \in DOMAIN rows : rows[j].current}}
MetricsOf(files) ==
  [files |-> Cardinality(files),
   additions |-> SumFunction([f \in files |-> f.additions])]

(* synchronize_pr_files and analyze_pull_request, in the transaction of    *)
(* the delivery.                                                           *)
SynchronizeFiles ==
  LET written == WriteFiles(fileRow, listing.items)
      rows == Marked(written.rows, written.seen)
  IN /\ listing.state = "listed"
     /\ IF written.ok /\ ~Collide(rows, written.flushed)
        THEN /\ fileRow' = rows
             /\ metrics' = {MetricsOf(CurrentFiles(rows))}
             /\ applied' = [of |-> listing.of, quiet |-> listing.quiet]
             /\ listing' = NoListing
        ELSE /\ listing' = [listing EXCEPT !.state = "refused"]
             /\ UNCHANGED <<fileRow, metrics, applied>>
     /\ UNCHANGED <<diff, pushes>>

(* At the file limit the rows stay and the metrics go.                     *)
KeepFiles ==
  /\ listing.state = "limit"
  /\ metrics' = {}
  /\ listing' = NoListing
  /\ UNCHANGED <<diff, pushes, fileRow, applied>>

FilesNext ==
  \/ \E files \in Diffs : PushFiles(files)
  \/ StartListing \/ \E stripped \in BOOLEAN : FetchPage(stripped)
  \/ ListingFails
  \/ SynchronizeFiles \/ KeepFiles

FilesSpec == FilesInit /\ [][FilesNext]_filesVars

-----------------------------------------------------------------------------
(* Properties                                                              *)

(* A listing makes no more requests than the limit has pages.              *)
FilesTypeOK ==
  /\ diff \in Diffs /\ pushes \in 0..MaxPushes
  /\ listing.page \in 0..(FileLimit \div PageSize + 1)
  /\ listing.items \in Seq(Changed) /\ listing.of \in Diffs \cup {{}}
  /\ listing.state \in {"none", "fetching", "limit", "listed", "refused"}
  /\ fileRow \in Seq(FileRow)
  /\ \A i, j \in DOMAIN fileRow : fileRow[i].file.name = fileRow[j].file.name => i = j
  /\ metrics \subseteq [files : Nat, additions : Nat]

(* However the files were renamed, dropped and taken back before, what a   *)
(* delivery found without a push between its pages is stored: the current  *)
(* rows are exactly those files, and the metrics count them.               *)
StoredAsListed ==
  applied.quiet =>
    /\ CurrentFiles(fileRow) = applied.of
    /\ \A m \in metrics : m = MetricsOf(applied.of)

(* Only a listing that mixes two diffs can be refused, for a file listed   *)
(* twice or for two rows of one name; a delivery whose listing nothing     *)
(* interrupts is never stuck on what is stored.                            *)
RefusedOnlyIfMixed == listing.state = "refused" => ~listing.quiet
=============================================================================
