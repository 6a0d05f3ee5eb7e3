--------------------------- MODULE OrganizerProofs ---------------------------
(* Proofs of what organizing the library promises, for every set of books, *)
(* files, root folders and patterns and any number of faults.              *)
EXTENDS OrganizerProperties, TLAPS

(***************************************************************************)
(* The invariant.                                                          *)
(***************************************************************************)
Working ==
  /\ work = [at |-> work.at, moves |-> work.moves, done |-> work.done]
  /\ work.at \in {"idle", "moving", "rolling"}
  /\ work.done \subseteq MovedFiles
  /\ Quiet => MovedFiles = {}
  /\ events \in Nat

Unique == \A f, g \in DOMAIN files : files[f] = files[g] => f = g

\* No two of the places an apply moves from and to are the same.
Apart ==
  /\ MovedFiles \subseteq DOMAIN files
  /\ \A f \in MovedFiles : work.moves[f].source = files[f]
  /\ \A f, g \in MovedFiles :
       /\ work.moves[f].target = work.moves[g].target => f = g
       /\ work.moves[f].target # files[g]

\* Where a file is still to be moved, or to be moved back, nothing is but
\* what other programs left.
Clear ==
  /\ work.at = "moving" => \A f \in MovedFiles \ work.done :
       work.moves[f].target \in DOMAIN disk
         => work.moves[f].target \in appeared
  /\ \A f \in work.done : files[f] \in DOMAIN disk => files[f] \in appeared

Holds(p, f) == p \in DOMAIN disk /\ disk[p] = f

\* A file is where its row says, or where the apply has moved it.
Owned ==
  \A f \in DOMAIN files \ excused :
    /\ f \notin work.done => Holds(files[f], f)
    /\ f \in work.done => Holds(work.moves[f].target, f)

\* An apply moves nothing to where another file is.
Strange ==
  \A g \in (DOMAIN files \ excused) \ MovedFiles : \A f \in MovedFiles :
    work.moves[f].target # files[g]

Stored ==
  /\ roots \subseteq Root /\ rename_files \in BOOLEAN /\ locked \in BOOLEAN
  /\ \A b \in DOMAIN books :
       books[b].title \in Title /\ books[b].root \in roots \cup {0}
  /\ \A f \in DOMAIN files : BookOf[f] \in DOMAIN books

Contents == \A p \in DOMAIN disk : disk[p] \in File \cup {Torn, Other}

Inv ==
  Working /\ Unique /\ Apart /\ Clear /\ Owned /\ Strange /\ Stored /\ Contents

(***************************************************************************)
(* Tables, folders and moves.                                              *)
(***************************************************************************)
LEMMA WithDomain ==
  ASSUME NEW f, NEW x, NEW y
  PROVE  /\ DOMAIN With(f, x, y) = DOMAIN f \cup {x}
         /\ With(f, x, y)[x] = y
         /\ \A z \in DOMAIN f : z # x => With(f, x, y)[z] = f[z]
BY DEF With

LEMMA WithoutDomain ==
  ASSUME NEW f, NEW S
  PROVE  /\ DOMAIN Without(f, S) = DOMAIN f \ S
         /\ \A z \in DOMAIN f \ S : Without(f, S)[z] = f[z]
BY DEF Without

\* A move empties the one place and fills the other.
LEMMA MovedDisk ==
  ASSUME NEW from \in DOMAIN disk, NEW to, from # to
  PROVE  /\ DOMAIN Moved(from, to) = (DOMAIN disk \ {from}) \cup {to}
         /\ Moved(from, to)[to] = disk[from]
         /\ \A p \in DOMAIN disk \ {from, to} : Moved(from, to)[p] = disk[p]
<1> DEFINE rest == Without(disk, {from})
<1>1. DOMAIN rest = DOMAIN disk \ {from}
  BY WithoutDomain
<1>2. \A p \in DOMAIN disk \ {from} : rest[p] = disk[p]
  BY WithoutDomain
<1> HIDE DEF rest
<1>3. DOMAIN With(rest, to, disk[from]) = DOMAIN rest \cup {to}
  BY DEF With
<1>4. With(rest, to, disk[from])[to] = disk[from]
  BY DEF With
<1>5. \A p \in DOMAIN rest : p # to => With(rest, to, disk[from])[p] = rest[p]
  BY DEF With
<1>6. Moved(from, to) = With(rest, to, disk[from])
  BY DEF Moved, rest
<1> QED
  BY <1>1, <1>2, <1>3, <1>4, <1>5, <1>6

\* A move that breaks off leaves everything as it is but its target.
LEMMA BrokenDisk ==
  ASSUME NEW from, NEW to, BrokenOff(from, to)
  PROVE  \/ disk' = disk
         \/ /\ from \in DOMAIN disk
            /\ DOMAIN disk' = DOMAIN disk \cup {to}
            /\ disk'[to] \in {Torn, disk[from]}
            /\ \A p \in DOMAIN disk \ {to} : disk'[p] = disk[p]
<1>1. CASE disk' = disk
  BY <1>1
<1>2. ASSUME from \in DOMAIN disk, NEW left \in {Torn, disk[from]},
             disk' = With(disk, to, left)
      PROVE  /\ DOMAIN disk' = DOMAIN disk \cup {to}
             /\ disk'[to] = left
             /\ \A p \in DOMAIN disk \ {to} : disk'[p] = disk[p]
  BY <1>2 DEF With
<1> QED
  BY <1>1, <1>2 DEF BrokenOff

\* What the preview says of a file that is ready.
LEMMA Ready ==
  ASSUME NEW f, NEW root, NEW pattern,
         OrganizeItem(f, root, pattern) = "ready"
  PROVE  /\ files[f] \in DOMAIN disk
         /\ files[f] # Target(f, root, pattern)
         /\ ~Collides(f, root, pattern)
         /\ Target(f, root, pattern) \notin DOMAIN disk
<1> DEFINE target == Target(f, root, pattern)
           inside == InsideRoot(target)
           there == files[f] \in DOMAIN disk
           clash == Collides(f, root, pattern)
<1>1. OrganizeItem(f, root, pattern) =
        CASE ~inside -> "outside_root"
          [] inside /\ ~there -> "missing"
          [] inside /\ there ->
               IF files[f] = target THEN "unchanged"
               ELSE IF clash \/ target \in DOMAIN disk
                    THEN "conflict" ELSE "ready"
  BY DEF OrganizeItem
<1> HIDE DEF target, inside, clash
<1>2. inside /\ there
  BY <1>1
<1>3. files[f] # target /\ ~clash /\ target \notin DOMAIN disk
  BY <1>1, <1>2
<1> QED
  BY <1>2, <1>3 DEF target, clash

LEMMA ReadyApart ==
  ASSUME NEW b, NEW root, NEW pattern,
         NEW moves, moves = ReadyMoves(b, root, pattern)
  PROVE  /\ DOMAIN moves \subseteq DOMAIN files
         /\ \A f \in DOMAIN moves :
              /\ moves[f].source = files[f] /\ files[f] \in DOMAIN disk
              /\ moves[f].target \notin DOMAIN disk
         /\ \A f, g \in DOMAIN moves :
              moves[f].target = moves[g].target => f = g
<1> DEFINE ready ==
             {f \in FilesOf(b) : OrganizeItem(f, root, pattern) = "ready"}
           preview == build_preview(b, root, pattern)
<1>1. \A f \in FilesOf(b) : preview[f] = OrganizeItem(f, root, pattern)
  BY DEF build_preview
<1>2. {f \in FilesOf(b) : preview[f] = "ready"} = ready
  BY <1>1
<1>3. moves = [f \in {f \in FilesOf(b) : preview[f] = "ready"} |->
                 [source |-> files[f], target |-> Target(f, root, pattern)]]
  BY DEF ReadyMoves
<1> HIDE DEF preview
<1>4. DOMAIN moves = ready
  BY <1>2, <1>3
<1>5. \A f \in ready : /\ moves[f].source = files[f]
                       /\ moves[f].target = Target(f, root, pattern)
  BY <1>2, <1>3
<1>6. \A f \in ready : f \in DOMAIN files /\ BookOf[f] = b
  BY DEF FilesOf
<1>7. \A f \in ready : /\ files[f] \in DOMAIN disk
                       /\ files[f] # Target(f, root, pattern)
                       /\ ~Collides(f, root, pattern)
                       /\ Target(f, root, pattern) \notin DOMAIN disk
  BY Ready
<1>8. ready \subseteq FilesOf(b)
  OBVIOUS
<1> HIDE DEF ready
<1>9. ASSUME NEW f \in ready, NEW g \in ready, f # g,
             Target(f, root, pattern) = Target(g, root, pattern)
      PROVE  FALSE
  <2>1. g \in FilesOf(BookOf[f]) \ {f}
    BY <1>6, <1>8, <1>9
  <2>2. Collides(f, root, pattern)
    BY <2>1, <1>7, <1>9 DEF Collides
  <2> QED
    BY <2>2, <1>7
<1> QED
  BY <1>4, <1>5, <1>6, <1>7, <1>9

(***************************************************************************)
(* What every step does to the histories.                                  *)
(***************************************************************************)
LEMMA Idle == NoWork.at = "idle" /\ NoWork.done = {} /\ DOMAIN NoWork.moves = {}
BY DEF NoWork

LEMMA Remembered ==
  ASSUME Remembers
  PROVE  /\ excused \subseteq excused'
         /\ work'.at = "idle" => appeared' = {}
         /\ work'.at # "idle" /\ ~ByOthers => appeared' = appeared
BY DEF Remembers

LEMMA EventCounts ==
  ASSUME Working, Event PROVE events' \in Nat /\ events' > events
BY DEF Working, Event

(***************************************************************************)
(* The first states.                                                       *)
(***************************************************************************)
LEMMA InitInv == Init => Inv
<1> SUFFICES ASSUME Init PROVE Inv
  OBVIOUS
<1> USE DEF Init, OrganizerInit
<1>1. MovedFiles = {} /\ work.at = "idle" /\ work.done = {}
  BY Idle DEF MovedFiles
<1>2. Working
  BY <1>1 DEF Working, NoWork
<1>3. DOMAIN files = File /\ Unique
  BY RowAssumption DEF Unique
<1>4. DOMAIN disk = {FirstPath[f] : f \in File}
  OBVIOUS
<1>5. ASSUME NEW f \in File PROVE Holds(FirstPath[f], f)
  <2>1. disk[FirstPath[f]] = CHOOSE g \in File : FirstPath[g] = FirstPath[f]
    OBVIOUS
  <2>2. \A g \in File : FirstPath[g] = FirstPath[f] => g = f
    BY RowAssumption
  <2>3. f = CHOOSE g \in File : FirstPath[g] = FirstPath[f]
    BY <2>2
  <2> QED
    BY <1>4, <2>1, <2>3 DEF Holds
<1>6. Owned
  BY <1>1, <1>3, <1>5 DEF Owned
<1>7. Apart /\ Clear /\ Strange
  BY <1>1 DEF Apart, Clear, Strange
<1>8. Stored
  BY RowAssumption, <1>3 DEF Stored
<1>9. Contents
  <2> SUFFICES ASSUME NEW f \in File PROVE disk[FirstPath[f]] \in File
    BY <1>4 DEF Contents
  <2> QED
    BY <1>5 DEF Holds
<1> QED
  BY <1>2, <1>3, <1>6, <1>7, <1>8, <1>9 DEF Inv

(***************************************************************************)
(* Steps between two requests, and the end of an apply.                    *)
(***************************************************************************)
Paths == Working /\ Unique /\ Apart /\ Clear /\ Owned /\ Strange /\ Contents

LEMMA QuietPaths ==
  ASSUME Inv, Remembers, Quiet, disk' = disk, work' = work, events' \in Nat,
         DOMAIN files' \subseteq DOMAIN files,
         \A f \in DOMAIN files' : files'[f] = files[f]
  PROVE  Paths'
<1>1. appeared' = {} /\ excused \subseteq excused'
  BY Remembered DEF Quiet
<1>2. MovedFiles = {} /\ work.done = {}
  BY DEF Inv, Working
<1>3. MovedFiles' = {} /\ work'.done = {}
  BY <1>2 DEF MovedFiles
<1>4. Working'
  BY <1>3 DEF Inv, Working, Quiet, MovedFiles
<1>5. Unique'
  BY DEF Inv, Unique
<1>6. Apart' /\ Clear' /\ Strange'
  BY <1>1, <1>3 DEF Apart, Clear, Strange
<1>7. Owned'
  BY <1>1, <1>2, <1>3 DEF Inv, Owned, Holds
<1>8. Contents'
  BY DEF Inv, Contents
<1> QED
  BY <1>4, <1>5, <1>6, <1>7, <1>8 DEF Paths

LEMMA EndPaths ==
  ASSUME Inv, Remembers, work' = NoWork, events' \in Nat
  PROVE  /\ Working' /\ Apart' /\ Clear' /\ Strange'
         /\ work'.done = {} /\ excused \subseteq excused'
<1>1. appeared' = {} /\ excused \subseteq excused'
  BY Remembered, Idle
<1>2. MovedFiles' = {} /\ work'.done = {}
  BY Idle DEF MovedFiles
<1>3. Working'
  BY <1>2, Idle DEF Working, NoWork, Quiet
<1>4. Apart' /\ Clear' /\ Strange'
  BY <1>1, <1>2 DEF Apart, Clear, Strange
<1> QED
  BY <1>1, <1>2, <1>3, <1>4

LEMMA RolledBackPaths == ASSUME Inv, Remembers, RolledBack PROVE Paths'
<1> USE DEF RolledBack
<1>1. Working' /\ Apart' /\ Clear' /\ Strange' /\ work'.done = {}
      /\ excused \subseteq excused'
  BY EndPaths DEF Inv, Working
<1>2. Unique' /\ Contents'
  BY DEF Inv, Unique, Contents
<1>3. Owned'
  BY <1>1 DEF Inv, Owned, Holds
<1> QED
  BY <1>1, <1>2, <1>3 DEF Paths

\* What is moved is excused if the apply ends here.
LEMMA CutMoving ==
  ASSUME Remembers, work.at = "moving", work' = NoWork, files' = files
  PROVE  MovedFiles \subseteq excused'
<1>1. ~Quiet
  BY DEF Quiet
<1>2. CutLoose = MovedFiles
  BY <1>1 DEF CutLoose
<1> QED
  BY <1>2 DEF Remembers

LEMMA UpdateFailsPaths == ASSUME Inv, Remembers, UpdateFails PROVE Paths'
<1> USE DEF UpdateFails, AllMoved
<1>1. Working' /\ Apart' /\ Clear' /\ Strange' /\ work'.done = {}
      /\ excused \subseteq excused'
  BY EndPaths DEF Inv, Working
<1>2. Unique' /\ Contents'
  BY DEF Inv, Unique, Contents
<1>3. work.done \subseteq excused'
  BY CutMoving
<1>4. Owned'
  BY <1>1, <1>3 DEF Inv, Owned, Holds
<1> QED
  BY <1>1, <1>2, <1>4 DEF Paths

LEMMA PathsUpdatedPaths == ASSUME Inv, Remembers, PathsUpdated PROVE Paths'
<1> USE DEF PathsUpdated, AllMoved
<1>1. Working' /\ Apart' /\ Clear' /\ Strange' /\ work'.done = {}
      /\ excused \subseteq excused'
  BY EndPaths DEF Inv, Working
<1>2. Contents'
  BY DEF Inv, Contents
<1>3. DOMAIN files' = DOMAIN files
  OBVIOUS
<1>4. \A f \in DOMAIN files :
        files'[f] = IF f \in MovedFiles THEN work.moves[f].target ELSE files[f]
  OBVIOUS
<1>5. \A f \in MovedFiles : \A g \in DOMAIN files \ MovedFiles :
        files[g] # work.moves[f].target
  BY DEF Taken
<1>6. Unique'
  <2> SUFFICES ASSUME NEW f \in DOMAIN files, NEW g \in DOMAIN files,
                      files'[f] = files'[g]
               PROVE  f = g
    BY <1>3 DEF Unique
  <2>1. CASE f \in MovedFiles /\ g \in MovedFiles
    BY <2>1, <1>4 DEF Inv, Apart
  <2>2. CASE f \in MovedFiles /\ g \notin MovedFiles
    BY <2>2, <1>4, <1>5
  <2>3. CASE f \notin MovedFiles /\ g \in MovedFiles
    BY <2>3, <1>4, <1>5
  <2>4. CASE f \notin MovedFiles /\ g \notin MovedFiles
    BY <2>4, <1>4 DEF Inv, Unique
  <2> QED
    BY <2>1, <2>2, <2>3, <2>4
<1>7. Owned'
  BY <1>1, <1>3, <1>4 DEF Inv, Owned, Holds
<1> QED
  BY <1>1, <1>2, <1>6, <1>7 DEF Paths

\* The targets of an apply and the places its files come from, as far as
\* the next step writes there, hold nothing anyone misses.
LEMMA WritesForward ==
  ASSUME Inv, NEW f, MovesNext(f)
  PROVE  /\ f \in MovedFiles \ work.done
         /\ work.moves[f].source = files[f]
         /\ work.moves[f].source # work.moves[f].target
         /\ work.moves[f].target \in DOMAIN disk
              => work.moves[f].target \in appeared
         /\ \A g \in DOMAIN files \ excused :
              /\ g \notin work.done => files[g] # work.moves[f].target
              /\ g \in work.done
                   => work.moves[g].target # work.moves[f].target
<1>1. f \in MovedFiles \ work.done /\ work.at = "moving"
  BY DEF MovesNext
<1>2. work.moves[f].source = files[f]
  BY <1>1 DEF Inv, Apart
<1>3. work.moves[f].source # work.moves[f].target
  BY <1>1, <1>2 DEF Inv, Apart
<1>4. work.moves[f].target \in DOMAIN disk => work.moves[f].target \in appeared
  BY <1>1 DEF Inv, Clear
<1>5. ASSUME NEW g \in DOMAIN files \ excused, g \notin work.done
      PROVE  files[g] # work.moves[f].target
  <2>1. CASE g \in MovedFiles
    BY <1>1, <2>1 DEF Inv, Apart
  <2>2. CASE g \notin MovedFiles
    BY <1>1, <2>2 DEF Inv, Strange
  <2> QED
    BY <2>1, <2>2
<1>6. ASSUME NEW g \in work.done
      PROVE  work.moves[g].target # work.moves[f].target
  BY <1>1, <1>6 DEF Inv, Apart, Working
<1> QED
  BY <1>1, <1>2, <1>3, <1>4, <1>5, <1>6

LEMMA WritesBack ==
  ASSUME Inv, NEW f, BackNext(f)
  PROVE  /\ f \in work.done /\ f \in MovedFiles /\ f \in DOMAIN files
         /\ work.moves[f].source = files[f]
         /\ work.moves[f].source # work.moves[f].target
         /\ work.moves[f].source \in DOMAIN disk
              => work.moves[f].source \in appeared
         /\ \A g \in DOMAIN files : g # f => files[g] # files[f]
         /\ \A g \in work.done : work.moves[g].target # files[f]
         /\ \A g \in work.done : g # f
              => work.moves[g].target # work.moves[f].target
<1>1. f \in work.done /\ f \in MovedFiles /\ f \in DOMAIN files
  BY DEF BackNext, Inv, Working, Apart
<1>2. work.moves[f].source = files[f]
  BY <1>1 DEF Inv, Apart
<1>3. work.moves[f].source # work.moves[f].target
  BY <1>1, <1>2 DEF Inv, Apart
<1>4. files[f] \in DOMAIN disk => files[f] \in appeared
  BY <1>1 DEF Inv, Clear
<1>5. \A g \in DOMAIN files : g # f => files[g] # files[f]
  BY <1>1 DEF Inv, Unique
<1>6. \A g \in work.done : work.moves[g].target # files[f]
  BY <1>1 DEF Inv, Apart, Working
<1>7. \A g \in work.done :
        g # f => work.moves[g].target # work.moves[f].target
  BY <1>1 DEF Inv, Apart, Working
<1> QED
  BY <1>1, <1>2, <1>3, <1>4, <1>5, <1>6, <1>7

(***************************************************************************)
(* An apply begins.                                                        *)
(***************************************************************************)
LEMMA StartPaths ==
  ASSUME Inv, Remembers, NEW b, NEW requested, NEW pattern,
         post_organize_apply(b, requested, pattern)
  PROVE  Paths'
<1> DEFINE root == _resolve_organize_root(b, requested)
           moves == ReadyMoves(b, root, pattern)
<1>1. /\ Quiet /\ Event /\ disk' = disk /\ files' = files
      /\ work' = [at |-> "moving", moves |-> moves, done |-> {}]
  BY DEF post_organize_apply
<1> HIDE DEF root
<1>2. /\ DOMAIN moves \subseteq DOMAIN files
      /\ \A f \in DOMAIN moves :
           /\ moves[f].source = files[f] /\ files[f] \in DOMAIN disk
           /\ moves[f].target \notin DOMAIN disk
      /\ \A f, g \in DOMAIN moves : moves[f].target = moves[g].target => f = g
  BY ReadyApart
<1> HIDE DEF moves
<1>3. work'.at = "moving" /\ work'.moves = moves /\ work'.done = {}
  BY <1>1
<1>4. MovedFiles' = DOMAIN moves
  BY <1>3 DEF MovedFiles
<1>5. appeared' = appeared /\ excused \subseteq excused'
  <2>1. ~ByOthers
    BY <1>1 DEF ByOthers
  <2> QED
    BY <2>1, <1>3, Remembered
<1>6. work.done = {} /\ MovedFiles = {}
  BY <1>1 DEF Inv, Working
<1>7. Working'
  BY <1>1, <1>3, EventCounts DEF Inv, Working, Quiet
<1>8. Unique' /\ Contents'
  BY <1>1 DEF Inv, Unique, Contents
<1>9. Apart'
  BY <1>1, <1>2, <1>3, <1>4 DEF Apart
<1>10. Clear'
  BY <1>1, <1>2, <1>3, <1>4 DEF Clear
<1>11. Owned'
  BY <1>1, <1>3, <1>5, <1>6 DEF Inv, Owned, Holds
<1>12. Strange'
  BY <1>1, <1>2, <1>3, <1>4, <1>5, <1>6 DEF Inv, Strange, Owned, Holds
<1> QED
  BY <1>7, <1>8, <1>9, <1>10, <1>11, <1>12 DEF Paths

(***************************************************************************)
(* Moves and moves back.                                                   *)
(***************************************************************************)
\* What the moves of an apply have in common.
Moving ==
  /\ files' = files /\ events' \in Nat
  /\ work' = [at |-> work'.at, moves |-> work.moves, done |-> work'.done]
  /\ work'.at \in {"moving", "rolling"} /\ work'.done \subseteq MovedFiles
  /\ work' # work

LEMMA MovingKeeps ==
  ASSUME Inv, Remembers, Moving
  PROVE  /\ Working' /\ Unique' /\ Apart' /\ Strange'
         /\ work'.moves = work.moves /\ MovedFiles' = MovedFiles
         /\ appeared' = appeared /\ excused \subseteq excused'
<1> USE DEF Moving
<1>1. work'.moves = work.moves /\ MovedFiles' = MovedFiles
  BY DEF MovedFiles
<1>2. appeared' = appeared /\ excused \subseteq excused'
  BY Remembered DEF ByOthers
<1>3. Working'
  BY <1>1 DEF Working, Quiet
<1>4. Unique' /\ Apart'
  BY <1>1 DEF Inv, Unique, Apart
<1>5. Strange'
  BY <1>1, <1>2 DEF Inv, Strange
<1> QED
  BY <1>1, <1>2, <1>3, <1>4, <1>5

\* What MovesNext and BackNext allow, as steps of that form.
LEMMA MoveMoves ==
  ASSUME Inv, NEW f, Move(f)
  PROVE  /\ Moving /\ work'.at = "moving"
         /\ work'.done = work.done \cup {f}
<1>1. f \in MovedFiles \ work.done /\ work.at = "moving"
  BY DEF Move, MovesNext
<1>2. work' =
        [at |-> work.at, moves |-> work.moves, done |-> work.done \cup {f}]
  BY DEF Move, Inv, Working
<1> QED
  BY <1>1, <1>2 DEF Moving, Move, Inv, Working

LEMMA MoveFailsMoves ==
  ASSUME Inv, NEW f, MoveFails(f)
  PROVE  Moving /\ work'.at = "rolling" /\ work'.done = work.done
<1>1. work.at = "moving"
  BY DEF MoveFails, MovesNext
<1>2. work' = [at |-> "rolling", moves |-> work.moves, done |-> work.done]
  BY DEF MoveFails, Inv, Working
<1>3. events' \in Nat
  BY EventCounts DEF MoveFails, Fault, Inv, Working
<1> QED
  BY <1>1, <1>2, <1>3 DEF Moving, MoveFails, Inv, Working

LEMMA UndoneMoves ==
  ASSUME Inv, NEW f, BackNext(f), work' = Undone(f), files' = files,
         events' \in Nat
  PROVE  Moving /\ work'.at = "rolling" /\ work'.done = work.done \ {f}
<1>1. work.at = "rolling" /\ f \in work.done
  BY DEF BackNext
<1>2. work' = [at |-> work.at, moves |-> work.moves, done |-> work.done \ {f}]
  BY DEF Undone, Inv, Working
<1> QED
  BY <1>1, <1>2 DEF Moving, Inv, Working

LEMMA MovePaths == ASSUME Inv, Remembers, NEW f, Move(f) PROVE Paths'
<1> DEFINE from == work.moves[f].source
           to == work.moves[f].target
<1>1. Moving /\ work'.at = "moving" /\ work'.done = work.done \cup {f}
  BY MoveMoves
<1>2. /\ Working' /\ Unique' /\ Apart' /\ Strange'
      /\ work'.moves = work.moves /\ MovedFiles' = MovedFiles
      /\ appeared' = appeared /\ excused \subseteq excused' /\ files' = files
  BY <1>1, MovingKeeps DEF Moving
<1>3. MovesNext(f) /\ from \in DOMAIN disk /\ disk' = Moved(from, to)
  BY DEF Move
<1>4. /\ f \in MovedFiles \ work.done /\ from = files[f] /\ from # to
      /\ \A g \in DOMAIN files \ excused :
           /\ g \notin work.done => files[g] # to
           /\ g \in work.done => work.moves[g].target # to
  BY <1>3, WritesForward
<1>5. /\ DOMAIN disk' = (DOMAIN disk \ {from}) \cup {to}
      /\ disk'[to] = disk[from]
      /\ \A p \in DOMAIN disk \ {from, to} : disk'[p] = disk[p]
  <2> HIDE DEF from, to
  <2>1. from \in DOMAIN disk /\ from # to
    BY <1>3, <1>4
  <2>2. /\ DOMAIN Moved(from, to) = (DOMAIN disk \ {from}) \cup {to}
        /\ Moved(from, to)[to] = disk[from]
        /\ \A p \in DOMAIN disk \ {from, to} : Moved(from, to)[p] = disk[p]
    BY <2>1, MovedDisk
  <2> QED
    BY <1>3, <2>2
<1>6. /\ MovedFiles \subseteq DOMAIN files
      /\ work.done \subseteq MovedFiles
      /\ \A g, h \in MovedFiles :
           /\ work.moves[g].target = work.moves[h].target => g = h
           /\ work.moves[g].target # files[h]
      /\ \A g, h \in DOMAIN files : files[g] = files[h] => g = h
  BY DEF Inv, Apart, Working, Unique
<1> HIDE DEF from, to
<1>7. to = work.moves[f].target
  BY DEF to
<1>8. Contents'
  BY <1>3, <1>5 DEF Inv, Contents
<1>9. Clear'
  <2>1. ASSUME NEW g \in MovedFiles \ work'.done,
               work.moves[g].target \in DOMAIN disk'
        PROVE  work.moves[g].target \in appeared
    BY <2>1, <1>1, <1>4, <1>5, <1>6, <1>7, <1>3 DEF Inv, Clear, MovesNext
  <2>2. ASSUME NEW g \in work'.done, files[g] \in DOMAIN disk'
        PROVE  files[g] \in appeared
    <3>1. files[g] # to /\ files[g] \in DOMAIN disk \ {from}
      BY <2>2, <1>1, <1>4, <1>5, <1>6, <1>7
    <3> QED
      BY <2>2, <3>1, <1>1, <1>4 DEF Inv, Clear
  <2> QED
    BY <2>1, <2>2, <1>2 DEF Clear
<1>10. Owned'
  <2> SUFFICES ASSUME NEW g \in DOMAIN files \ excused
               PROVE  /\ g \notin work'.done => Holds(files[g], g)'
                      /\ g \in work'.done => Holds(work.moves[g].target, g)'
    BY <1>2 DEF Owned, Holds
  <2>1. ASSUME g \notin work'.done PROVE Holds(files[g], g)'
    <3>1. g \notin work.done /\ g # f
      BY <1>1, <2>1
    <3>2. files[g] \in DOMAIN disk /\ disk[files[g]] = g
      BY <3>1 DEF Inv, Owned, Holds
    <3>3. files[g] # to /\ files[g] # from
      BY <3>1, <1>4, <1>6
    <3> QED
      BY <3>2, <3>3, <1>5, <1>2 DEF Holds
  <2>2. ASSUME g \in work.done PROVE Holds(work.moves[g].target, g)'
    <3>1. /\ work.moves[g].target \in DOMAIN disk
          /\ disk[work.moves[g].target] = g
      BY <2>2 DEF Inv, Owned, Holds
    <3>2. work.moves[g].target # to /\ work.moves[g].target # from
      BY <2>2, <1>4, <1>6
    <3> QED
      BY <3>1, <3>2, <1>5, <1>2 DEF Holds
  <2>3. ASSUME g = f PROVE Holds(work.moves[g].target, g)'
    <3>1. files[f] \in DOMAIN disk /\ disk[files[f]] = f
      BY <2>3, <1>4 DEF Inv, Owned, Holds
    <3> QED
      BY <3>1, <2>3, <1>4, <1>5, <1>7, <1>2 DEF Holds
  <2> QED
    BY <2>1, <2>2, <2>3, <1>1
<1> QED
  BY <1>2, <1>8, <1>9, <1>10 DEF Paths

LEMMA MoveFailsPaths == ASSUME Inv, Remembers, NEW f, MoveFails(f) PROVE Paths'
<1> DEFINE from == work.moves[f].source
           to == work.moves[f].target
<1>1. Moving /\ work'.at = "rolling" /\ work'.done = work.done
  BY MoveFailsMoves
<1>2. /\ Working' /\ Unique' /\ Apart' /\ Strange'
      /\ work'.moves = work.moves /\ MovedFiles' = MovedFiles
      /\ appeared' = appeared /\ excused \subseteq excused' /\ files' = files
  BY <1>1, MovingKeeps DEF Moving
<1>3. MovesNext(f) /\ BrokenOff(from, to)
  BY DEF MoveFails
<1>4. /\ f \in MovedFiles \ work.done
      /\ \A g \in DOMAIN files \ excused :
           /\ g \notin work.done => files[g] # to
           /\ g \in work.done => work.moves[g].target # to
  BY <1>3, WritesForward
<1>5. \/ disk' = disk
      \/ /\ from \in DOMAIN disk
         /\ DOMAIN disk' = DOMAIN disk \cup {to}
         /\ disk'[to] \in {Torn, disk[from]}
         /\ \A p \in DOMAIN disk \ {to} : disk'[p] = disk[p]
  BY <1>3, BrokenDisk
<1>6. \A g \in MovedFiles : files[g] # to
  BY <1>4 DEF Inv, Apart
<1> HIDE DEF from, to
<1>7. Contents'
  BY <1>5 DEF Inv, Contents
<1>8. Clear'
  BY <1>1, <1>2, <1>5, <1>6 DEF Inv, Clear, Working
<1>9. Owned'
  <2> SUFFICES ASSUME NEW g \in DOMAIN files \ excused
               PROVE  /\ g \notin work.done => Holds(files[g], g)'
                      /\ g \in work.done => Holds(work.moves[g].target, g)'
    BY <1>1, <1>2 DEF Owned, Holds
  <2>1. /\ g \notin work.done => Holds(files[g], g)
        /\ g \in work.done => Holds(work.moves[g].target, g)
    BY DEF Inv, Owned
  <2>2. ASSUME NEW p, p # to, Holds(p, g)
        PROVE  p \in DOMAIN disk' /\ disk'[p] = g
    BY <1>5, <2>2 DEF Holds
  <2>3. ASSUME g \notin work.done PROVE Holds(files[g], g)'
    BY <2>1, <2>2, <2>3, <1>4, <1>2 DEF Holds
  <2>4. ASSUME g \in work.done PROVE Holds(work.moves[g].target, g)'
    BY <2>1, <2>2, <2>4, <1>4, <1>2 DEF Holds
  <2> QED
    BY <2>3, <2>4
<1> QED
  BY <1>2, <1>7, <1>8, <1>9 DEF Paths

LEMMA RollBackPaths == ASSUME Inv, Remembers, NEW f, RollBack(f) PROVE Paths'
<1> DEFINE to == work.moves[f].source
           from == work.moves[f].target
<1>1. BackNext(f) /\ from \in DOMAIN disk /\ disk' = Moved(from, to)
      /\ work' = Undone(f) /\ files' = files /\ events' = events
  BY DEF RollBack
<1>2. Moving /\ work'.at = "rolling" /\ work'.done = work.done \ {f}
  BY <1>1, UndoneMoves DEF Inv, Working
<1>3. /\ Working' /\ Unique' /\ Apart' /\ Strange'
      /\ work'.moves = work.moves /\ MovedFiles' = MovedFiles
      /\ appeared' = appeared /\ excused \subseteq excused'
  BY <1>2, MovingKeeps
<1>4. /\ f \in work.done /\ f \in MovedFiles /\ f \in DOMAIN files
      /\ to = files[f] /\ to # from
      /\ \A g \in DOMAIN files : g # f => files[g] # files[f]
      /\ \A g \in work.done : work.moves[g].target # files[f]
      /\ \A g \in work.done : g # f => work.moves[g].target # from
  BY <1>1, WritesBack
<1>5. /\ DOMAIN disk' = (DOMAIN disk \ {from}) \cup {to}
      /\ disk'[to] = disk[from]
      /\ \A p \in DOMAIN disk \ {from, to} : disk'[p] = disk[p]
  <2> HIDE DEF from, to
  <2>1. from \in DOMAIN disk /\ from # to
    BY <1>1, <1>4
  <2>2. /\ DOMAIN Moved(from, to) = (DOMAIN disk \ {from}) \cup {to}
        /\ Moved(from, to)[to] = disk[from]
        /\ \A p \in DOMAIN disk \ {from, to} : Moved(from, to)[p] = disk[p]
    BY <2>1, MovedDisk
  <2> QED
    BY <1>1, <2>2
<1>6. from = work.moves[f].target
  OBVIOUS
<1>7. work.done \subseteq MovedFiles /\ MovedFiles \subseteq DOMAIN files
  BY DEF Inv, Working, Apart
<1> HIDE DEF from, to
<1>8. Contents'
  BY <1>1, <1>5 DEF Inv, Contents
<1>9. Clear'
  BY <1>1, <1>2, <1>3, <1>4, <1>5, <1>7 DEF Inv, Clear
<1>10. Owned'
  <2> SUFFICES ASSUME NEW g \in DOMAIN files \ excused
               PROVE  /\ g \notin work'.done => Holds(files[g], g)'
                      /\ g \in work'.done => Holds(work.moves[g].target, g)'
    BY <1>1, <1>3 DEF Owned, Holds
  <2>1. CASE g = f
    <3>1. disk[from] = f
      BY <2>1, <1>4, <1>6 DEF Inv, Owned, Holds
    <3> QED
      BY <2>1, <3>1, <1>1, <1>2, <1>4, <1>5 DEF Holds
  <2>2. ASSUME g # f, g \notin work'.done PROVE Holds(files[g], g)'
    <3>1. files[g] \in DOMAIN disk /\ disk[files[g]] = g
      BY <2>2, <1>2 DEF Inv, Owned, Holds
    <3>2. files[g] # to /\ files[g] # from
      BY <2>2, <1>4, <1>6 DEF Inv, Strange, Apart
    <3> QED
      BY <3>1, <3>2, <1>1, <1>5 DEF Holds
  <2>3. ASSUME g # f, g \in work'.done
        PROVE  Holds(work.moves[g].target, g)'
    <3>1. g \in work.done
      BY <2>3, <1>2
    <3>2. /\ work.moves[g].target \in DOMAIN disk
          /\ disk[work.moves[g].target] = g
      BY <3>1 DEF Inv, Owned, Holds
    <3>3. work.moves[g].target # to /\ work.moves[g].target # from
      BY <3>1, <2>3, <1>4
    <3> QED
      BY <3>2, <3>3, <1>3, <1>5 DEF Holds
  <2> QED
    BY <2>1, <2>2, <2>3
<1> QED
  BY <1>3, <1>8, <1>9, <1>10 DEF Paths

LEMMA RollBackFailsPaths ==
  ASSUME Inv, Remembers, NEW f, RollBackFails(f) PROVE Paths'
<1> DEFINE to == work.moves[f].source
           from == work.moves[f].target
<1>1. BackNext(f) /\ BrokenOff(from, to) /\ Fault(from)
      /\ work' = Undone(f) /\ files' = files
  BY DEF RollBackFails
<1>2. events' \in Nat /\ (events' > events \/ from \notin DOMAIN disk)
  BY <1>1, EventCounts DEF Fault, Inv, Working
<1>3. Moving /\ work'.at = "rolling" /\ work'.done = work.done \ {f}
  BY <1>1, <1>2, UndoneMoves
<1>4. /\ Working' /\ Unique' /\ Apart' /\ Strange'
      /\ work'.moves = work.moves /\ MovedFiles' = MovedFiles
      /\ appeared' = appeared /\ excused \subseteq excused'
  BY <1>3, MovingKeeps
<1>5. /\ f \in work.done /\ f \in MovedFiles /\ f \in DOMAIN files
      /\ to = files[f] /\ to # from
      /\ \A g \in DOMAIN files : g # f => files[g] # files[f]
      /\ \A g \in work.done : work.moves[g].target # files[f]
  BY <1>1, WritesBack
<1>6. \/ disk' = disk
      \/ /\ from \in DOMAIN disk
         /\ DOMAIN disk' = DOMAIN disk \cup {to}
         /\ disk'[to] \in {Torn, disk[from]}
         /\ \A p \in DOMAIN disk \ {to} : disk'[p] = disk[p]
  BY <1>1, BrokenDisk
<1>7. work.done \subseteq MovedFiles /\ MovedFiles \subseteq DOMAIN files
  BY DEF Inv, Working, Apart
<1>8. f \in excused'
  <2>1. CASE events' > events
    <3>1. work.at = "rolling" /\ work'.at = "rolling" /\ work' # work
      BY <1>1, <1>3, <1>5 DEF BackNext
    <3>2. work' # NoWork
      BY <3>1, Idle
    <3>3. CutLoose = work.done \ work'.done
      BY <2>1, <3>1, <3>2 DEF CutLoose
    <3> QED
      BY <3>3, <1>3, <1>5 DEF Remembers
  <2>2. CASE from \notin DOMAIN disk
    <3>1. f \in excused
      BY <2>2, <1>5 DEF Inv, Owned, Holds
    <3> QED
      BY <3>1, <1>4
  <2> QED
    BY <2>1, <2>2, <1>2
<1> HIDE DEF from, to
<1>9. Contents'
  BY <1>6 DEF Inv, Contents
<1>10. Clear'
  BY <1>1, <1>3, <1>4, <1>5, <1>6, <1>7 DEF Inv, Clear
<1>11. Owned'
  <2> SUFFICES ASSUME NEW g \in DOMAIN files \ excused, g # f
               PROVE  /\ g \notin work'.done => Holds(files[g], g)'
                      /\ g \in work'.done => Holds(work.moves[g].target, g)'
    BY <1>1, <1>4, <1>8 DEF Owned, Holds
  <2>1. /\ g \notin work.done => Holds(files[g], g)
        /\ g \in work.done => Holds(work.moves[g].target, g)
    BY DEF Inv, Owned
  <2>2. ASSUME NEW p, p # to, Holds(p, g)
        PROVE  p \in DOMAIN disk' /\ disk'[p] = g
    BY <1>6, <2>2 DEF Holds
  <2>3. ASSUME g \notin work'.done PROVE Holds(files[g], g)'
    BY <2>1, <2>2, <2>3, <1>1, <1>3, <1>5 DEF Holds
  <2>4. ASSUME g \in work'.done PROVE Holds(work.moves[g].target, g)'
    BY <2>1, <2>2, <2>4, <1>3, <1>4, <1>5 DEF Holds
  <2> QED
    BY <2>3, <2>4
<1> QED
  BY <1>4, <1>9, <1>10, <1>11 DEF Paths

(***************************************************************************)
(* A crash, and what other programs do.                                    *)
(***************************************************************************)
LEMMA CrashPaths == ASSUME Inv, Remembers, Crash PROVE Paths'
<1>1. Event /\ ~Quiet /\ work' = NoWork /\ files' = files
  BY DEF Crash
<1>2. events' \in Nat /\ events' > events
  BY <1>1, EventCounts DEF Inv
<1>3. Working' /\ Apart' /\ Clear' /\ Strange' /\ work'.done = {}
      /\ excused \subseteq excused'
  BY <1>1, <1>2, EndPaths
<1>4. Unique'
  BY <1>1 DEF Inv, Unique
<1>5. work.at \in {"moving", "rolling"} /\ work.done \subseteq MovedFiles
  BY <1>1 DEF Inv, Working, Quiet
<1>6. (work.at = "moving" \/ work.done # {}) => MovedFiles \subseteq excused'
  <2>1. CASE work.at = "moving"
    BY <2>1, <1>1, CutMoving
  <2>2. CASE work.at = "rolling" /\ work.done # {}
    <3>1. CutLoose = MovedFiles
      BY <2>2, <1>1, <1>2, Idle DEF CutLoose
    <3> QED
      BY <3>1 DEF Remembers
  <2> QED
    BY <2>1, <2>2, <1>5
<1>7. CASE disk' = disk
  <2>1. Contents'
    BY <1>7 DEF Inv, Contents
  <2>2. Owned'
    BY <1>7, <1>1, <1>3, <1>5, <1>6 DEF Inv, Owned, Holds
  <2> QED
    BY <2>1, <2>2, <1>3, <1>4 DEF Paths
<1>8. ASSUME NEW f, NEW from, NEW to, BrokenOff(from, to),
             \/ MovesNext(f) /\ to = work.moves[f].target
             \/ BackNext(f) /\ to = work.moves[f].source
      PROVE  Paths'
  <2>1. MovedFiles \subseteq excused'
    BY <1>6, <1>8 DEF MovesNext, BackNext
  <2>2. \A g \in (DOMAIN files \ excused) \ MovedFiles : files[g] # to
    <3>1. CASE MovesNext(f) /\ to = work.moves[f].target
      BY <3>1, WritesForward DEF Inv, Working
    <3>2. CASE BackNext(f) /\ to = work.moves[f].source
      BY <3>2, WritesBack
    <3> QED
      BY <1>8, <3>1, <3>2
  <2>3. \/ disk' = disk
        \/ /\ from \in DOMAIN disk
           /\ DOMAIN disk' = DOMAIN disk \cup {to}
           /\ disk'[to] \in {Torn, disk[from]}
           /\ \A p \in DOMAIN disk \ {to} : disk'[p] = disk[p]
    BY <1>8, BrokenDisk
  <2>4. Contents'
    BY <2>3 DEF Inv, Contents
  <2>5. Owned'
    <3> SUFFICES ASSUME NEW g \in (DOMAIN files \ excused) \ MovedFiles
                 PROVE  files[g] \in DOMAIN disk' /\ disk'[files[g]] = g
      BY <1>1, <1>3, <2>1 DEF Owned, Holds
    <3>1. files[g] \in DOMAIN disk /\ disk[files[g]] = g
      BY <1>5 DEF Inv, Owned, Holds
    <3> QED
      BY <3>1, <2>2, <2>3
  <2> QED
    BY <2>4, <2>5, <1>3, <1>4 DEF Paths
<1>9. \/ disk' = disk
      \/ \E f \in MovedFiles :
           \/ /\ MovesNext(f)
              /\ BrokenOff(work.moves[f].source, work.moves[f].target)
           \/ /\ BackNext(f)
              /\ BrokenOff(work.moves[f].target, work.moves[f].source)
  BY DEF Crash
<1>10. ASSUME NEW f, MovesNext(f),
              BrokenOff(work.moves[f].source, work.moves[f].target)
       PROVE  Paths'
  <2> DEFINE from == work.moves[f].source
             to == work.moves[f].target
  <2>1. BrokenOff(from, to) /\ to = work.moves[f].target
    BY <1>10
  <2> HIDE DEF from, to
  <2> QED
    BY <1>8, <1>10, <2>1
<1>11. ASSUME NEW f, BackNext(f),
              BrokenOff(work.moves[f].target, work.moves[f].source)
       PROVE  Paths'
  <2> DEFINE from == work.moves[f].target
             to == work.moves[f].source
  <2>1. BrokenOff(from, to) /\ to = work.moves[f].source
    BY <1>11
  <2> HIDE DEF from, to
  <2> QED
    BY <1>8, <1>11, <2>1
<1> QED
  BY <1>7, <1>9, <1>10, <1>11

\* What other programs do changes the disk only.
LEMMA OthersKeep ==
  ASSUME Inv, Event, work' = work, files' = files
  PROVE  /\ Working' /\ Unique' /\ Apart' /\ MovedFiles' = MovedFiles
<1>1. MovedFiles' = MovedFiles
  BY DEF MovedFiles
<1>2. Working'
  BY <1>1, EventCounts DEF Inv, Working, Quiet
<1> QED
  BY <1>1, <1>2 DEF Inv, Unique, Apart

LEMMA OtherRemovesPaths ==
  ASSUME Inv, Remembers, NEW p \in DOMAIN disk, OtherRemoves(p) PROVE Paths'
<1>1. Event /\ disk' = Without(disk, {p}) /\ work' = work /\ files' = files
  BY DEF OtherRemoves
<1>2. Working' /\ Unique' /\ Apart' /\ MovedFiles' = MovedFiles
  BY <1>1, OthersKeep
<1>3. /\ DOMAIN disk' = DOMAIN disk \ {p}
      /\ \A q \in DOMAIN disk \ {p} : disk'[q] = disk[q]
  BY <1>1 DEF Without
<1>4. ByOthers
  BY <1>1, <1>3 DEF ByOthers
<1>5. excused \subseteq excused' /\ disk[p] \in excused'
  BY <1>3, <1>4 DEF Remembers
<1>6. Strange'
  BY <1>1, <1>2, <1>5 DEF Inv, Strange
<1>7. Contents'
  BY <1>3 DEF Inv, Contents
<1>8. Owned'
  BY <1>1, <1>3, <1>5 DEF Inv, Owned, Holds
<1>9. Clear'
  <2>1. CASE Quiet
    BY <2>1, <1>1, <1>2 DEF Inv, Working, Clear
  <2>2. CASE ~Quiet
    <3>1. appeared \subseteq appeared'
      BY <2>2, <1>1, <1>4 DEF Remembers, Quiet
    <3> QED
      BY <3>1, <1>1, <1>2, <1>3 DEF Inv, Clear
  <2> QED
    BY <2>1, <2>2
<1> QED
  BY <1>2, <1>6, <1>7, <1>8, <1>9 DEF Paths

LEMMA OtherLeavesPaths == ASSUME Inv, Remembers, OtherLeaves PROVE Paths'
<1>1. PICK f \in MovedFiles :
        \E p \in {work.moves[f].source, work.moves[f].target} \ DOMAIN disk :
          disk' = With(disk, p, Other)
  BY DEF OtherLeaves
<1>2. PICK p : p \notin DOMAIN disk /\ disk' = With(disk, p, Other)
  BY <1>1
<1>3. Event /\ work' = work /\ files' = files
  BY DEF OtherLeaves
<1>4. Working' /\ Unique' /\ Apart' /\ MovedFiles' = MovedFiles
  BY <1>3, OthersKeep
<1>5. /\ DOMAIN disk' = DOMAIN disk \cup {p} /\ disk'[p] = Other
      /\ \A q \in DOMAIN disk : disk'[q] = disk[q]
  BY <1>2 DEF With
<1>6. ByOthers
  BY <1>2, <1>3, <1>5 DEF ByOthers
<1>7. ~Quiet
  BY <1>1 DEF Inv, Working
<1>8. excused \subseteq excused' /\ appeared' = appeared \cup {p}
  BY <1>2, <1>3, <1>5, <1>6, <1>7 DEF Remembers, Quiet
<1>9. Strange'
  BY <1>3, <1>4, <1>8 DEF Inv, Strange
<1>10. Contents'
  BY <1>5 DEF Inv, Contents
<1>11. Owned'
  BY <1>3, <1>5, <1>8 DEF Inv, Owned, Holds
<1>12. Clear'
  BY <1>3, <1>4, <1>5, <1>8 DEF Inv, Clear
<1> QED
  BY <1>4, <1>9, <1>10, <1>11, <1>12 DEF Paths

(***************************************************************************)
(* What the requests store.                                                *)
(***************************************************************************)
LEMMA PatchStored == ASSUME Stored, NEW b, patch_book(b) PROVE Stored'
<1>1. PICK title \in Title, root \in roots \cup {0} :
        books' = [books EXCEPT ![b] = [title |-> title, root |-> root]]
  BY DEF patch_book
<1>2. DOMAIN books' = DOMAIN books
  BY <1>1
<1>3. ASSUME NEW c \in DOMAIN books
      PROVE  books'[c].title \in Title /\ books'[c].root \in roots \cup {0}
  <2>1. CASE c = b
    BY <2>1, <1>1
  <2>2. CASE c # b
    BY <2>2, <1>1 DEF Stored
  <2> QED
    BY <2>1, <2>2
<1> QED
  BY <1>2, <1>3 DEF Stored, patch_book

LEMMA RemoveStored == ASSUME Stored, NEW b, remove_book(b) PROVE Stored'
<1>1. /\ DOMAIN books' = DOMAIN books \ {b}
      /\ \A c \in DOMAIN books \ {b} : books'[c] = books[c]
  BY DEF remove_book, Without
<1>2. DOMAIN files' = DOMAIN files \ FilesOf(b)
  BY DEF remove_book, Without
<1>3. \A f \in DOMAIN files' : BookOf[f] \in DOMAIN books'
  BY <1>1, <1>2 DEF Stored, FilesOf
<1> QED
  BY <1>1, <1>3 DEF Stored, remove_book

LEMMA RootStored ==
  ASSUME Stored, NEW root \in Root,
         remove_root_folder(root) \/ post_root_folder(root)
  PROVE  Stored'
<1>1. CASE remove_root_folder(root)
  BY <1>1 DEF Stored, remove_root_folder, Unused
<1>2. CASE post_root_folder(root)
  BY <1>2 DEF Stored, post_root_folder
<1> QED
  BY <1>1, <1>2

LEMMA UnchangedStored ==
  ASSUME Stored, UNCHANGED <<books, roots, rename_files>>,
         DOMAIN files' = DOMAIN files, locked' \in BOOLEAN
  PROVE  Stored'
BY DEF Stored

LEMMA StoredNext == ASSUME Inv, OrganizerNext PROVE Stored'
<1>1. Stored
  BY DEF Inv
<1>2. locked \in BOOLEAN
  BY <1>1 DEF Stored
<1>3. ASSUME NEW b, NEW requested, NEW pattern,
             post_organize_apply(b, requested, pattern)
      PROVE  Stored'
  BY <1>1, <1>2, <1>3, UnchangedStored DEF post_organize_apply
<1>4. ASSUME NEW f, Move(f) PROVE Stored'
  BY <1>1, <1>2, <1>4, UnchangedStored DEF Move
<1>5. ASSUME NEW f, MoveFails(f) PROVE Stored'
  BY <1>1, <1>2, <1>5, UnchangedStored DEF MoveFails
<1>6. ASSUME NEW f, RollBack(f) PROVE Stored'
  BY <1>1, <1>2, <1>6, UnchangedStored DEF RollBack
<1>7. ASSUME NEW f, RollBackFails(f) PROVE Stored'
  BY <1>1, <1>2, <1>7, UnchangedStored DEF RollBackFails
<1>8. CASE RolledBack
  BY <1>1, <1>2, <1>8, UnchangedStored DEF RolledBack
<1>9. CASE PathsUpdated
  <2>1. DOMAIN files' = DOMAIN files
    BY <1>9 DEF PathsUpdated
  <2> QED
    BY <1>1, <1>2, <1>9, <2>1, UnchangedStored DEF PathsUpdated
<1>10. CASE UpdateFails
  BY <1>1, <1>2, <1>10, UnchangedStored DEF UpdateFails
<1>11. CASE Crash
  BY <1>1, <1>11, UnchangedStored DEF Crash
<1>12. CASE put_settings
  BY <1>1, <1>12 DEF Stored, put_settings
<1>13. CASE ImportTakesLock
  BY <1>1, <1>13, UnchangedStored DEF ImportTakesLock
<1>14. CASE ImportCommits
  BY <1>1, <1>14, UnchangedStored DEF ImportCommits
<1>15. ASSUME NEW p, OtherRemoves(p) PROVE Stored'
  BY <1>1, <1>2, <1>15, UnchangedStored DEF OtherRemoves
<1>16. CASE OtherLeaves
  BY <1>1, <1>2, <1>16, UnchangedStored DEF OtherLeaves
<1> QED
  BY <1>1, <1>3, <1>4, <1>5, <1>6, <1>7, <1>8, <1>9, <1>10, <1>11, <1>12,
     <1>13, <1>14, <1>15, <1>16, PatchStored, RemoveStored, RootStored
     DEF OrganizerNext

(***************************************************************************)
(* Every step keeps the invariant.                                         *)
(***************************************************************************)
LEMMA QuietSteps ==
  ASSUME Inv, Remembers, NEW b, NEW root,
         \/ patch_book(b) \/ remove_book(b)
         \/ remove_root_folder(root) \/ post_root_folder(root)
         \/ put_settings \/ ImportTakesLock \/ ImportCommits
  PROVE  Paths'
<1>1. CASE remove_book(b)
  <2>1. /\ Quiet /\ Event /\ disk' = disk /\ work' = work
        /\ files' = Without(files, FilesOf(b))
    BY <1>1 DEF remove_book
  <2>2. /\ DOMAIN files' \subseteq DOMAIN files
        /\ \A f \in DOMAIN files' : files'[f] = files[f]
    BY <2>1 DEF Without
  <2> QED
    BY <2>1, <2>2, QuietPaths, EventCounts DEF Inv
<1>2. CASE ImportCommits
  BY <1>2, QuietPaths DEF ImportCommits, Inv, Working
<1>3. CASE patch_book(b)
  BY <1>3, QuietPaths, EventCounts DEF patch_book, Inv
<1>4. CASE remove_root_folder(root)
  BY <1>4, QuietPaths, EventCounts DEF remove_root_folder, Inv
<1>5. CASE post_root_folder(root)
  BY <1>5, QuietPaths, EventCounts DEF post_root_folder, Inv
<1>6. CASE put_settings
  BY <1>6, QuietPaths, EventCounts DEF put_settings, Inv
<1>7. CASE ImportTakesLock
  BY <1>7, QuietPaths, EventCounts DEF ImportTakesLock, Inv
<1> QED
  BY <1>1, <1>2, <1>3, <1>4, <1>5, <1>6, <1>7

LEMMA PathsNext == ASSUME Inv, Next PROVE Paths'
<1>1. OrganizerNext /\ Remembers
  BY DEF Next
<1>2. ASSUME NEW b \in Book, NEW requested \in Root \cup {0},
             NEW pattern \in Pattern,
             post_organize_apply(b, requested, pattern)
      PROVE  Paths'
  BY <1>1, <1>2, StartPaths
<1>3. ASSUME NEW b \in Book, patch_book(b) \/ remove_book(b) PROVE Paths'
  BY <1>1, <1>3, QuietSteps
<1>4. ASSUME NEW f \in File,
             Move(f) \/ MoveFails(f) \/ RollBack(f) \/ RollBackFails(f)
      PROVE  Paths'
  BY <1>1, <1>4, MovePaths, MoveFailsPaths, RollBackPaths, RollBackFailsPaths
<1>5. CASE RolledBack \/ PathsUpdated \/ UpdateFails \/ Crash
  BY <1>1, <1>5, RolledBackPaths, PathsUpdatedPaths, UpdateFailsPaths,
     CrashPaths
<1>6. ASSUME NEW root \in Root,
             remove_root_folder(root) \/ post_root_folder(root)
      PROVE  Paths'
  BY <1>1, <1>6, QuietSteps
<1>7. CASE put_settings \/ ImportTakesLock \/ ImportCommits
  BY <1>1, <1>7, QuietSteps
<1>8. ASSUME NEW p \in DOMAIN disk, OtherRemoves(p) PROVE Paths'
  BY <1>1, <1>8, OtherRemovesPaths
<1>9. CASE OtherLeaves
  BY <1>1, <1>9, OtherLeavesPaths
<1> QED
  BY <1>1, <1>2, <1>3, <1>4, <1>5, <1>6, <1>7, <1>8, <1>9 DEF OrganizerNext

LEMMA NextInv == Inv /\ [Next]_vars => Inv'
<1> SUFFICES ASSUME Inv, [Next]_vars PROVE Inv'
  OBVIOUS
<1>1. CASE Next
  <2>1. Stored'
    BY <1>1, StoredNext DEF Next
  <2>2. Paths'
    BY <1>1, PathsNext
  <2> QED
    BY <2>1, <2>2 DEF Paths, Inv
<1>2. CASE UNCHANGED vars
  <2>1. /\ disk' = disk /\ files' = files /\ books' = books /\ roots' = roots
        /\ rename_files' = rename_files /\ locked' = locked /\ work' = work
        /\ events' = events /\ excused' = excused /\ appeared' = appeared
    BY <1>2 DEF vars, organizerVars
  <2>2. MovedFiles' = MovedFiles /\ Quiet' = Quiet
    BY <2>1 DEF MovedFiles, Quiet
  <2>3. Working' /\ Unique' /\ Apart' /\ Clear'
    BY <2>1, <2>2 DEF Inv, Working, Unique, Apart, Clear
  <2>4. Owned' /\ Strange' /\ Stored' /\ Contents'
    BY <2>1, <2>2 DEF Inv, Owned, Holds, Strange, Stored, Contents
  <2> QED
    BY <2>3, <2>4 DEF Inv
<1> QED
  BY <1>1, <1>2

LEMMA AlwaysInv == Spec => []Inv
BY InitInv, NextInv, PTL DEF Spec

(***************************************************************************)
(* The theorems.                                                           *)
(***************************************************************************)

(* Every variable keeps its type: a book prefers a root folder that        *)
(* exists, a file's row is one of a book that exists, and no two rows name *)
(* one path.                                                               *)
THEOREM TypeCorrect == Spec => []TypeOK
<1>1. Inv => TypeOK
  BY DEF Inv, TypeOK, Working, Unique, Stored, Contents
<1> QED
  BY <1>1, AlwaysInv, PTL

(* Between two requests the row of a file names the path that holds it,    *)
(* unless a crash, a failed update, a failed move back or another program  *)
(* has cut it loose.                                                       *)
THEOREM RowsAlwaysNameOwnFile == Spec => []RowsNameOwnFile
<1>1. Inv => RowsNameOwnFile
  BY DEF Inv, RowsNameOwnFile, Owned, Holds, Working
<1> QED
  BY <1>1, AlwaysInv, PTL

\* What a step of this program spares.
Spares ==
  \A p \in DOMAIN disk :
    \/ disk[p] = Torn \/ p \in appeared
    \/ p \in DOMAIN disk' /\ disk'[p] = disk[p]
    \/ \E q \in DOMAIN disk' \ {p} :
         disk'[q] = disk[p] /\ q \notin DOMAIN disk \ appeared

LEMMA MovedSpares ==
  ASSUME NEW from \in DOMAIN disk, NEW to, from # to,
         disk' = Moved(from, to), to \in DOMAIN disk => to \in appeared
  PROVE  Spares
<1>1. /\ DOMAIN Moved(from, to) = (DOMAIN disk \ {from}) \cup {to}
      /\ Moved(from, to)[to] = disk[from]
      /\ \A p \in DOMAIN disk \ {from, to} : Moved(from, to)[p] = disk[p]
  BY MovedDisk
<1> QED
  BY <1>1 DEF Spares

LEMMA BrokenSpares ==
  ASSUME NEW from, NEW to, BrokenOff(from, to),
         to \in DOMAIN disk => to \in appeared
  PROVE  Spares
BY BrokenDisk DEF Spares

LEMMA StepSpares == ASSUME Inv, OrganizerNext PROVE ByOthers \/ Spares
<1>1. CASE disk' = disk
  BY <1>1 DEF Spares
<1>2. ASSUME NEW f, Move(f) PROVE Spares
  <2> DEFINE from == work.moves[f].source
             to == work.moves[f].target
  <2>1. from # to /\ (to \in DOMAIN disk => to \in appeared)
    BY <1>2, WritesForward DEF Move
  <2>2. from \in DOMAIN disk /\ disk' = Moved(from, to)
    BY <1>2 DEF Move
  <2> HIDE DEF from, to
  <2> QED
    BY <2>1, <2>2, MovedSpares
<1>3. ASSUME NEW f, RollBack(f) PROVE Spares
  <2> DEFINE from == work.moves[f].target
             to == work.moves[f].source
  <2>1. from # to /\ (to \in DOMAIN disk => to \in appeared)
    BY <1>3, WritesBack DEF RollBack
  <2>2. from \in DOMAIN disk /\ disk' = Moved(from, to)
    BY <1>3 DEF RollBack
  <2> HIDE DEF from, to
  <2> QED
    BY <2>1, <2>2, MovedSpares
<1>4. ASSUME NEW f, MovesNext(f),
             BrokenOff(work.moves[f].source, work.moves[f].target)
      PROVE  Spares
  <2> DEFINE from == work.moves[f].source
             to == work.moves[f].target
  <2>1. to \in DOMAIN disk => to \in appeared
    BY <1>4, WritesForward
  <2>2. BrokenOff(from, to)
    BY <1>4
  <2> HIDE DEF from, to
  <2> QED
    BY <2>1, <2>2, BrokenSpares
<1>5. ASSUME NEW f, BackNext(f),
             BrokenOff(work.moves[f].target, work.moves[f].source)
      PROVE  Spares
  <2> DEFINE from == work.moves[f].target
             to == work.moves[f].source
  <2>1. to \in DOMAIN disk => to \in appeared
    BY <1>5, WritesBack
  <2>2. BrokenOff(from, to)
    BY <1>5
  <2> HIDE DEF from, to
  <2> QED
    BY <2>1, <2>2, BrokenSpares
<1>6. ASSUME NEW f, MoveFails(f) PROVE Spares
  BY <1>4, <1>6 DEF MoveFails
<1>7. ASSUME NEW f, RollBackFails(f) PROVE Spares
  BY <1>5, <1>7 DEF RollBackFails
<1>8. CASE Crash
  <2>1. CASE disk' = disk
    BY <1>1, <2>1
  <2>2. CASE \E f \in MovedFiles :
               \/ /\ MovesNext(f)
                  /\ BrokenOff(work.moves[f].source, work.moves[f].target)
               \/ /\ BackNext(f)
                  /\ BrokenOff(work.moves[f].target, work.moves[f].source)
    BY <2>2, <1>4, <1>5
  <2> QED
    BY <1>8, <2>1, <2>2 DEF Crash
<1>9. ASSUME NEW p, OtherRemoves(p) PROVE ByOthers \/ disk' = disk
  BY <1>9 DEF OtherRemoves, ByOthers
<1>10. CASE OtherLeaves
  <2>1. work' = work
    BY <1>10 DEF OtherLeaves
  <2> QED
    BY <2>1, <1>1 DEF ByOthers
<1>11. ASSUME NEW b, NEW requested, NEW pattern,
              post_organize_apply(b, requested, pattern)
       PROVE  disk' = disk
  BY <1>11 DEF post_organize_apply
<1>12. ASSUME NEW b, patch_book(b) \/ remove_book(b) PROVE disk' = disk
  BY <1>12 DEF patch_book, remove_book
<1>13. ASSUME NEW root, remove_root_folder(root) \/ post_root_folder(root)
       PROVE  disk' = disk
  BY <1>13 DEF remove_root_folder, post_root_folder
<1>14. CASE RolledBack \/ PathsUpdated \/ UpdateFails
  BY <1>14, <1>1 DEF RolledBack, PathsUpdated, UpdateFails
<1>15. CASE put_settings \/ ImportTakesLock \/ ImportCommits
  BY <1>15, <1>1 DEF put_settings, ImportTakesLock, ImportCommits
<1> QED
  BY <1>1, <1>2, <1>3, <1>6, <1>7, <1>8, <1>9, <1>10, <1>11, <1>12, <1>13,
     <1>14, <1>15 DEF OrganizerNext

(* Organizing destroys nothing: what a file held is still on disk after    *)
(* every step of this program, except torn copies and files that other     *)
(* programs left in the way after the preview had looked.                  *)
THEOREM NothingEverDestroyed == Spec => NothingDestroyed
<1>1. Inv /\ [Next]_vars
        => [ByOthers \/
            \A p \in DOMAIN disk :
              \/ disk[p] = Torn \/ p \in appeared
              \/ p \in DOMAIN disk' /\ disk'[p] = disk[p]
              \/ \E q \in DOMAIN disk' \ {p} :
                   disk'[q] = disk[p] /\ q \notin DOMAIN disk \ appeared]_vars
  <2> SUFFICES ASSUME Inv, Next PROVE ByOthers \/ Spares
    BY DEF Spares
  <2> QED
    BY StepSpares DEF Next
<1> QED
  BY <1>1, AlwaysInv, PTL DEF Spec, NothingDestroyed
=============================================================================
