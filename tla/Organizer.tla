------------------------------ MODULE Organizer ------------------------------
(***************************************************************************)
(* Moving the files of a book to where a pattern wants them                *)
(* (library/organizer.py and its endpoints in api/routes_library.py), with *)
(* the root folders and the books it reads.  post_organize_apply awaits    *)
(* nothing: while it moves files no other request runs, but the disk is    *)
(* shared with other programs, and the process may be killed.              *)
(*                                                                         *)
(* External: other programs remove and leave files; an import of this      *)
(* program holds the write lock of the database across its awaits.         *)
(***************************************************************************)
EXTENDS Integers, Sequences, FiniteSetsExt, TLC, Rows

CONSTANTS
  Book, File,   \* ids, natural numbers
  Root,         \* the paths that may be root folders; the first by path order
                \* is the least
  BookOf,       \* BookOf[f]: the book of the row of f
  Author,       \* Author[b]: the first author of b, or ""
  FirstTitle,   \* FirstTitle[b]: the title of b at the start
  Title,        \* the titles a user may give
  FirstPath,    \* FirstPath[f]: where f is at the start
  Pattern,      \* the patterns, sequences of tokens
  Clean,        \* Clean[s]: the sanitized s, where it is not s itself
  Links,        \* components that are symbolic links out of the root folder
  MaxEvents     \* bound: requests, crashes, faults, acts of other programs

ASSUME IdAssumption ==
  /\ Book \subseteq Nat
  /\ File \subseteq Nat \ {0} /\ Root \subseteq Nat \ {0}
\* The column of the paths is UNIQUE.
ASSUME RowAssumption ==
  /\ BookOf \in [File -> Book] /\ FirstTitle \in [Book -> Title]
  /\ DOMAIN FirstPath = File
  /\ \A f, g \in File : FirstPath[f] = FirstPath[g] => f = g
ASSUME EventAssumption == MaxEvents \in Nat

VARIABLES
  disk,         \* disk[p]: what the file at path p holds
  files,        \* files[f]: library_files.path of the row of f
  books,        \* books[b]: [title, root], root 0 is NULL
  roots,        \* the root folders
  rename_files, \* the setting of that name
  locked,       \* does an import hold the write lock?
  work,         \* the apply under way
  events        \* how many of these so far, counted against MaxEvents

organizerVars ==
  <<disk, files, books, roots, rename_files, locked, work, events>>

\* What a path may hold besides one of File: part of a file, or a file that
\* other programs left.
Torn == 0
Other == -1

\* moves[f]: the [source, target] of each file to move; done: the files moved.
NoWork == [at |-> "idle", moves |-> <<>>, done |-> {}]

OrganizerInit ==
  /\ disk = [p \in {FirstPath[f] : f \in File} |->
               CHOOSE f \in File : FirstPath[f] = p]
  /\ files = FirstPath
  /\ books = [b \in Book |-> [title |-> FirstTitle[b], root |-> 0]]
  /\ roots = Root
  /\ rename_files = TRUE
  /\ locked = FALSE
  /\ work = NoWork
  /\ events = 0

-----------------------------------------------------------------------------
(* Where a file belongs                                                    *)

sanitize_component(s) == IF s \in DOMAIN Clean THEN Clean[s] ELSE s

build_context(b) ==
  [title |-> books[b].title,
   author |-> IF Author[b] = "" THEN "Unknown Author" ELSE Author[b],
   series |-> ""]

\* An unknown token, like an empty one, leaves no component.
render_pattern(pattern, context) ==
  SelectSeq([i \in DOMAIN pattern |->
               IF pattern[i] \in DOMAIN context
               THEN sanitize_component(context[pattern[i]]) ELSE ""],
            LAMBDA component : component # "")

\* The name stays, the pattern makes only the folders.
render_target_relative_path(pattern, b, source) ==
  [folder |-> render_pattern(pattern, build_context(b)),
   stem |-> IF sanitize_component(source.stem) = "" THEN "file-id"
            ELSE sanitize_component(source.stem),
   suffix |-> source.suffix]

Target(f, root, pattern) ==
  [root |-> root] @@
    render_target_relative_path(pattern, BookOf[f], files[f])

FilesOf(b) == {f \in DOMAIN files : BookOf[f] = b}

InsideRoot(target) ==
  \A i \in DOMAIN target.folder : target.folder[i] \notin Links

\* Mutant of Collides: files of the book are only looked for on disk.
CollidesNever(f, root, pattern) == FALSE

\* Another file of the book that has to move would get the same path.
Collides(f, root, pattern) ==
  \E g \in FilesOf(BookOf[f]) \ {f} :
    /\ files[g] \in DOMAIN disk
    /\ Target(g, root, pattern) = Target(f, root, pattern)
    /\ files[g] # Target(g, root, pattern)

OrganizeItem(f, root, pattern) ==
  LET target == Target(f, root, pattern)
  IN  CASE ~InsideRoot(target) -> "outside_root"
        [] InsideRoot(target) /\ files[f] \notin DOMAIN disk -> "missing"
        [] InsideRoot(target) /\ files[f] \in DOMAIN disk ->
             IF files[f] = target THEN "unchanged"
             ELSE IF Collides(f, root, pattern) \/ target \in DOMAIN disk
                  THEN "conflict" ELSE "ready"

build_preview(b, root, pattern) ==
  [f \in FilesOf(b) |-> OrganizeItem(f, root, pattern)]

\* The root of the request (0: none), of the book, or the first one.
_resolve_organize_root(b, requested) ==
  IF requested # 0 THEN requested
  ELSE IF books[b].root # 0 THEN books[b].root
       ELSE IF roots = {} THEN 0 ELSE Min(roots)

-----------------------------------------------------------------------------
(* Apply                                                                   *)

Event == events < MaxEvents /\ events' = events + 1
Quiet == work.at = "idle"

ReadyMoves(b, root, pattern) ==
  LET preview == build_preview(b, root, pattern)
  IN  [f \in {f \in FilesOf(b) : preview[f] = "ready"} |->
         [source |-> files[f], target |-> Target(f, root, pattern)]]

\* Refused (400, 404, 409, 422) unless all of this holds; an apply with
\* nothing to move changes nothing.
post_organize_apply(b, requested, pattern) ==
  LET root == _resolve_organize_root(b, requested)
      preview == build_preview(b, root, pattern)
      moves == ReadyMoves(b, root, pattern)
  IN  /\ Quiet /\ Event /\ rename_files
      /\ b \in DOMAIN books /\ root \in roots
      /\ \A f \in FilesOf(b) : preview[f] \in {"ready", "unchanged"}
      /\ DOMAIN moves # {}
      /\ work' = [at |-> "moving", moves |-> moves, done |-> {}]
      /\ UNCHANGED <<disk, files, books, roots, rename_files, locked>>

\* rename(2), or a copy and an unlink: a file in the way is replaced.
Moved(from, to) == With(Without(disk, {from}), to, disk[from])

MovedFiles == DOMAIN work.moves

\* Files are moved in the order of their ids, and back from the last one.
MovesNext(f) ==
  /\ work.at = "moving" /\ f \in MovedFiles \ work.done
  /\ \A g \in MovedFiles \ work.done : f <= g

BackNext(f) ==
  /\ work.at = "rolling" /\ f \in work.done
  /\ \A g \in work.done : g <= f

Move(f) ==
  /\ MovesNext(f) /\ work.moves[f].source \in DOMAIN disk
  /\ disk' = Moved(work.moves[f].source, work.moves[f].target)
  /\ work' = [work EXCEPT !.done = @ \cup {f}]
  /\ UNCHANGED <<files, books, roots, rename_files, locked, events>>

\* A move to another device that breaks off, as a copy does or as the
\* unlink after it: a torn or a whole copy may stay.
BrokenOff(from, to) ==
  \/ disk' = disk
  \/ /\ from \in DOMAIN disk
     /\ \E left \in {Torn, disk[from]} : disk' = With(disk, to, left)

\* A fault of the disk, or the file is no longer there.
Fault(from) == Event \/ (from \notin DOMAIN disk /\ events' = events)

MoveFails(f) ==
  /\ MovesNext(f) /\ Fault(work.moves[f].source)
  /\ BrokenOff(work.moves[f].source, work.moves[f].target)
  /\ work' = [work EXCEPT !.at = "rolling"]
  /\ UNCHANGED <<files, books, roots, rename_files, locked>>

\* Mutant of Undone: the rollback ends after one file.
UndoneAll(f) == NoWork

Undone(f) == [work EXCEPT !.done = @ \ {f}]

RollBack(f) ==
  /\ BackNext(f) /\ work.moves[f].target \in DOMAIN disk
  /\ disk' = Moved(work.moves[f].target, work.moves[f].source)
  /\ work' = Undone(f)
  /\ UNCHANGED <<files, books, roots, rename_files, locked, events>>

RollBackFails(f) ==
  /\ BackNext(f) /\ Fault(work.moves[f].target)
  /\ BrokenOff(work.moves[f].target, work.moves[f].source)
  /\ work' = Undone(f)
  /\ UNCHANGED <<files, books, roots, rename_files, locked>>

RolledBack ==
  /\ work.at = "rolling" /\ work.done = {}
  /\ work' = NoWork
  /\ UNCHANGED <<disk, files, books, roots, rename_files, locked, events>>

AllMoved == work.at = "moving" /\ work.done = MovedFiles

\* The paths of the rows are unique in the whole table.
Taken ==
  \E f \in MovedFiles : \E g \in DOMAIN files \ MovedFiles :
    files[g] = work.moves[f].target

PathsUpdated ==
  /\ AllMoved /\ ~locked /\ ~Taken
  /\ files' = [f \in DOMAIN files |->
                 IF f \in MovedFiles THEN work.moves[f].target ELSE files[f]]
  /\ work' = NoWork
  /\ UNCHANGED <<disk, books, roots, rename_files, locked, events>>

\* The transaction is rolled back; the files stay where they are now.
UpdateFails ==
  /\ AllMoved /\ (locked \/ Taken)
  /\ work' = NoWork
  /\ UNCHANGED <<disk, files, books, roots, rename_files, locked, events>>

\* Killed before the commit, between two moves or within one.
Crash ==
  /\ ~Quiet /\ Event
  /\ \/ disk' = disk
     \/ \E f \in MovedFiles :
          LET m == work.moves[f]
          IN  \/ MovesNext(f) /\ BrokenOff(m.source, m.target)
              \/ BackNext(f) /\ BrokenOff(m.target, m.source)
  /\ work' = NoWork /\ locked' = FALSE
  /\ UNCHANGED <<files, books, roots, rename_files>>

-----------------------------------------------------------------------------
(* Other requests, other programs                                          *)

patch_book(b) ==
  /\ Quiet /\ Event /\ b \in DOMAIN books /\ ~locked
  /\ \E title \in Title : \E root \in roots \cup {0} :
       books' = [books EXCEPT ![b] = [title |-> title, root |-> root]]
  /\ books' # books
  /\ UNCHANGED <<disk, files, roots, rename_files, locked, work>>

\* The rows of the files go with the book, the files stay.
remove_book(b) ==
  /\ Quiet /\ Event /\ b \in DOMAIN books /\ ~locked
  /\ books' = Without(books, {b})
  /\ files' = Without(files, FilesOf(b))
  /\ UNCHANGED <<disk, roots, rename_files, locked, work>>

\* Mutant of Unused: any root folder may go.
UnusedOrNot(root) == TRUE

\* books.root_folder_id refers to the row: its DELETE raises.
Unused(root) == \A b \in DOMAIN books : books[b].root # root

remove_root_folder(root) ==
  /\ Quiet /\ Event /\ root \in roots /\ ~locked /\ Unused(root)
  /\ roots' = roots \ {root}
  /\ UNCHANGED <<disk, files, books, rename_files, locked, work>>

post_root_folder(root) ==
  /\ Quiet /\ Event /\ root \in Root \ roots /\ ~locked
  /\ roots' = roots \cup {root}
  /\ UNCHANGED <<disk, files, books, rename_files, locked, work>>

put_settings ==
  /\ Quiet /\ Event /\ rename_files' = ~rename_files
  /\ UNCHANGED <<disk, files, books, roots, locked, work>>

ImportTakesLock ==
  /\ Quiet /\ Event /\ ~locked /\ locked' = TRUE
  /\ UNCHANGED <<disk, files, books, roots, rename_files, work>>

ImportCommits ==
  /\ Quiet /\ locked /\ locked' = FALSE
  /\ UNCHANGED <<disk, files, books, roots, rename_files, work, events>>

OtherRemoves(p) ==
  /\ Event /\ disk' = Without(disk, {p})
  /\ UNCHANGED <<files, books, roots, rename_files, locked, work>>

\* Another program leaves a file where one is to be moved to or back.
OtherLeaves ==
  /\ Event
  /\ \E f \in MovedFiles :
       \E p \in {work.moves[f].source, work.moves[f].target} \ DOMAIN disk :
         disk' = With(disk, p, Other)
  /\ UNCHANGED <<files, books, roots, rename_files, locked, work>>

OrganizerNext ==
  \/ \E b \in Book :
       \/ \E requested \in Root \cup {0} : \E pattern \in Pattern :
            post_organize_apply(b, requested, pattern)
       \/ patch_book(b)
       \/ remove_book(b)
  \/ \E f \in File :
       Move(f) \/ MoveFails(f) \/ RollBack(f) \/ RollBackFails(f)
  \/ RolledBack \/ PathsUpdated \/ UpdateFails \/ Crash
  \/ \E root \in Root : remove_root_folder(root) \/ post_root_folder(root)
  \/ put_settings \/ ImportTakesLock \/ ImportCommits
  \/ \E p \in DOMAIN disk : OtherRemoves(p)
  \/ OtherLeaves
=============================================================================
