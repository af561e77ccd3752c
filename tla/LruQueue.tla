------------------------------ MODULE LruQueue ------------------------------
(* What the file cache of libgphoto2 promises about the downloads it holds, *)
(* without the linked list that holds them: a set of files in the order of  *)
(* their last use.  Using a file lets go of no more than the files used     *)
(* longest ago.  Apart from that a download goes only with its file, with   *)
(* the other files of a folder, or when the directory that vouches for it   *)
(* is to be read again, and the order of the others stays.                  *)
EXTENDS Naturals, FiniteSets

CONSTANTS
    Items,   \* the files that can be held
    Folders, \* sets of files that are deleted together
    Keep     \* held files above which the oldest are let go

VARIABLES
    held,    \* the held files
    older,   \* pairs of held files, the one used longer ago first
    known,   \* the files there are
    doubtful \* the files whose directory is to be read again before use

vars == <<held, older, known, doubtful>>

Among(files) == older \cap (files \X files)

Newest(files) == {e \in files : Cardinality({f \in files : <<e, f>> \in older}) < Keep}

Init == held = {} /\ older = {} /\ known \in SUBSET Items /\ doubtful \in SUBSET Items

(* A file is used: of the others only doubtful ones, and beyond Keep the    *)
(* oldest, may go.                                                          *)
Use(e) ==
    \E lost \in SUBSET doubtful :
        LET others == Newest(held \ lost) \ {e}
        IN  /\ held' = others \cup {e}
            /\ older' = Among(others) \cup (others \X {e})

LetGo(files) ==
    /\ held' \in SUBSET held /\ held \ held' \subseteq files
    /\ older' = Among(held')

Forget == LetGo(doubtful \cup (Items \ known'))

Clear(folder) == LetGo(doubtful \cup folder)

Next ==
    /\ known' \in SUBSET Items /\ doubtful' \in SUBSET Items
    /\ held' \in SUBSET known'
    /\ \/ Forget
       \/ \E folder \in Folders : Clear(folder)
       \/ \E e \in Items : Use(e)

Spec == Init /\ [][Next]_vars
=============================================================================
