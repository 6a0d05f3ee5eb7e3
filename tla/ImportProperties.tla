-------------------------- MODULE ImportProperties --------------------------
(***************************************************************************)
(* What must hold of the import pipeline, and what the repository says of  *)
(* it that the code does not keep.                                         *)
(***************************************************************************)
EXTENDS ImportPipeline

TypeOK ==
  /\ disk \in [Path -> Content]
  /\ lock \in Actor \cup {Nobody}
  /\ db \in Store
  /\ tx \in Store
  /\ task \in [Actor -> Task]
  /\ faults \in 0 .. MaxFaults

\* The duplicate check of the pipeline and the insertion of the book have no
\* await between them, but another caller's book may be uncommitted when they
\* run: still an identity is never imported twice (_import_one,
\* import_single_folder, _persist_book).
OneBookPerIdentity == \A b \in Book : db.books[b] <= 1 /\ tx.books[b] <= 1

\* Whatever fails, is rolled back, or crashes in the middle of a placement, an
\* intact copy of each audio file is left somewhere (place_candidate_files).
AudioConserved ==
  \A c \in Start, f \in File : \E p \in Place : disk[<<c[1], p, f>>] = c[2]

\* A committed row for a file beneath the root names a file that is there,
\* even when its folder was moved between the scan and the import; only
\* folders beneath no root are recorded by a relative path (_place_files,
\* _unplaced_files, _persist_files).
RowsNameFiles ==
  \A r \in RowPath : db.catalog[r] # NoBook =>
    IF r[2] = "relative" THEN <<r[1], "outside">> \in Start
                         ELSE disk[r] # "absent"

\* No caller but the API commits a book whose files are still being recorded
\* (scan and pollers roll back; routes_import.py commits in its finally).
OnlyApiCommitsHalves ==
  [][\A a \in Actor, b \in Book :
       (/\ task[a].pc = "probe" /\ task[a].book = b
        /\ db'.books[b] > db.books[b]) => a = "api"]_vars

\* The identities the download i may turn out to be.
Identities(i) == LET n == FolderOf[i][1]
                 IN (Hits[n] \cup {AsinOf[n]}) \ {NoBook}
Registered == {i \in Item : \E b \in Identities(i) : db.books[b] > 0}
Torrents == {i \in Item : ClientOf[i] = "qb"}

Ledger == INSTANCE DownloadLedger
            WITH phase <- db.ledger, registered <- Registered,
                 Retryable <- Torrents

\* The state rows of the downloads keep the promise of DownloadLedger: a
\* settled download is never taken up again, and "imported" is committed no
\* earlier than the book, across rollbacks and crashes (_process_sab,
\* _import_qbittorrent, _import_folder).
ImplementsLedger == Ledger!Spec

\* The write lock, which the pipeline holds across its awaits, is released.
LockReleased == (lock # Nobody) ~> (lock = Nobody)

\* A download SABnzbd reports gets a state row, unless the poller's loop ends
\* (_process_sab).
DownloadsSettled ==
  \A i \in Item : ClientOf[i] = "sab" =>
    <>(db.ledger[i] # "none" \/ task["poll"].pc = "dead")

-----------------------------------------------------------------------------
(***************************************************************************)
(* What the repository says and the code does not keep.                    *)
(***************************************************************************)

\* import_strategy.py:171: "All-or-nothing per candidate": no row names the
\* beginning of a file whose copy failed.
CataloguedWhole ==
  \A r \in Path : db.catalog[r] # NoBook => disk[r] # "torn"
=============================================================================
