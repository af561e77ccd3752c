--------------------------- MODULE CameraFilesys ----------------------------
(* CameraFilesystem of gphoto2-filesys.c: the tree in which libgphoto2      *)
(* remembers the folders and files of a camera, the dirty marks that decide *)
(* when the camera is asked again, the file information, and the downloaded *)
(* pictures held on a list in the order of their use.                       *)
(*                                                                          *)
(* A path is the sequence of folder names from the root, << >>.  An entry   *)
(* is a path and a file name.  Every action is one call of the interface    *)
(* with everything that call does, listings it sets off included; a listing *)
(* fails for the folders in its argument w.  A change the camera makes may  *)
(* be answered or not: then the call fails though the change was made.  The *)
(* camera changes by itself, too, and reports that in events, which the     *)
(* driver handles in order.                                                 *)
EXTENDS Naturals, Sequences, SequencesExt, FiniteSets, FiniteSetsExt

CONSTANTS
    FolderNames, FileNames,
    MaxDepth,     \* bound: components of a path
    Keep,         \* pictures_to_keep, the setting "cached-images"
    MaxNews,      \* bound: events not handled yet
    MaxNewDirs,   \* bound: folders the camera creates for one new file
    InfoFields,   \* fields of a file's information that can be set
    InfoDepths,   \* bound: depths of the folders whose files' information is used
    NewsDepths,   \* bound: depths of the folders whose files the camera changes itself
    FaultDepths,  \* bound: depths of the folders where listings fail and answers are lost
    MaxFaults,    \* bound: folders and files at a time that such a failure left behind
    UploadDepths, \* bound: depths of the folders files are uploaded to
    HostCaptures, \* whether captures also deliver files kept on no card
    Nil

ASSUME BoundsAreNatural ==
    /\ Keep \in Nat /\ MaxDepth \in Nat /\ MaxNews \in Nat /\ MaxNewDirs \in Nat /\ MaxFaults \in Nat
    /\ InfoFields \subseteq {"permissions", "mtime"}
    /\ InfoDepths \cup NewsDepths \cup UploadDepths \cup FaultDepths \subseteq Nat
    /\ HostCaptures \in BOOLEAN

Root == << >>
Paths == UNION {[1 .. n -> FolderNames] : n \in 0 .. MaxDepth}
Entries == Paths \X FileNames

ASSUME EntriesAreFinite == IsFiniteSet(Entries)
ASSUME NilIsNoEntry == Nil \notin Entries

VARIABLES
    device, \* the camera: its directories and the files on its storage
    fs,     \* struct _CameraFilesystem with its folders and files
    host,   \* files of the tree the camera never stored
    news    \* events of the camera, [kind, entry], oldest first

vars == <<device, fs, host, news>>

In(p) == {p} \X FileNames
InfoUsed == {e \in Entries : Len(e[1]) \in InfoDepths}
Below(p) == {q \in Paths : IsStrictPrefix(p, q)}
ChildrenIn(S, p) == {q \in S : IsStrictPrefix(p, q) /\ Len(q) = Len(p) + 1}

-----------------------------------------------------------------------------
(* The list of downloaded pictures: fs->lru_first, lru_last, and lru_prev   *)
(* and lru_next of the entries.  lru_prev of the first entry is the entry   *)
(* itself, so that NULL tells an entry that is not on the list.             *)

EmptyList ==
    [first |-> Nil, last |-> Nil,
     prev |-> [e \in Entries |-> Nil], next |-> [e \in Entries |-> Nil]]

(* The list as it is walked from lru_first, cut off after one entry too many. *)
Walk(l) ==
    LET At[i \in 1 .. Cardinality(Entries) + 1] ==
            IF i = 1 THEN l.first
            ELSE IF At[i - 1] = Nil THEN Nil ELSE l.next[At[i - 1]]
    IN  [i \in {k \in 1 .. Cardinality(Entries) + 1 : At[k] # Nil} |-> At[i]]

\* MUTANT of Unlink: the new first entry keeps its link to the one removed.
UnlinkKeepsLink(e, l) ==
    IF l.prev[e] = Nil THEN l
    ELSE [first |-> IF l.first = e THEN l.next[e] ELSE l.first,
          last  |-> IF l.last # e THEN l.last
                    ELSE IF l.first = e THEN Nil ELSE l.prev[e],
          prev  |-> [d \in Entries |->
                       IF d = e THEN Nil ELSE IF d = l.next[e] THEN l.prev[e] ELSE l.prev[d]],
          next  |-> [d \in Entries |->
                       IF d = e THEN Nil ELSE IF d = l.prev[e] THEN l.next[e] ELSE l.next[d]]]

Unlink(e, l) ==
    IF l.prev[e] = Nil THEN l
    ELSE LET before == l.prev[e]
             after == l.next[e]
             next == [l.next EXCEPT ![before] = after]
             prev == IF after = Nil THEN l.prev ELSE [l.prev EXCEPT ![after] = before]
             only == l.first = e /\ l.last = e
             first == IF l.first = e THEN after ELSE l.first
         IN  [first |-> first,
              last  |-> IF only THEN Nil ELSE IF l.last = e THEN before ELSE l.last,
              prev  |-> [d \in Entries |->
                           IF d = e THEN Nil
                           ELSE IF l.first = e /\ ~only /\ d = after THEN d ELSE prev[d]],
              next  |-> [next EXCEPT ![e] = Nil]]

AddLast(e, l) ==
    IF l.first = Nil
    THEN [l EXCEPT !.first = e, !.last = e, !.prev[e] = e]
    ELSE [l EXCEPT !.last = e, !.prev[e] = l.last, !.next[e] = Nil, !.next[l.last] = e]

(* gp_filesystem_lru_free: the first of the list loses its content. *)
FreeFirst(x) ==
    LET e == x.lru.first
        after == x.lru.next[e]
        l == [x.lru EXCEPT !.first = after,
                           !.last = IF after = Nil THEN Nil ELSE @,
                           !.prev = [d \in Entries |->
                                       IF d = e THEN Nil ELSE IF d = after THEN d ELSE @[d]],
                           !.next[e] = Nil]
    IN  [x EXCEPT !.lru = l, !.normal[e] = "none"]

CachedPictures(x) ==
    LET w == Walk(x.lru)
    IN  Cardinality({i \in DOMAIN w : x.normal[w[i]] # "none"})

\* MUTANT of Prune: one picture too many is let go.
PruneOneMore(x) ==
    LET Freed[n \in 0 .. Cardinality(Entries)] ==
            IF n = 0 THEN x
            ELSE LET y == Freed[n - 1]
                 IN  IF CachedPictures(y) >= Keep /\ y.lru.first # Nil
                     THEN FreeFirst(y) ELSE y
    IN  Freed[Cardinality(Entries)]

Prune(x) ==
    LET Freed[n \in 0 .. Cardinality(Entries)] ==
            IF n = 0 THEN x
            ELSE LET y == Freed[n - 1]
                 IN  IF CachedPictures(y) > Keep THEN FreeFirst(y) ELSE y
    IN  Freed[Cardinality(Entries)]

Update(x, e) ==
    LET y == Prune(x)
    IN  [y EXCEPT !.lru = AddLast(e, Unlink(e, @))]

(* gp_filesystem_lru_check *)
ListIntact(l) ==
    LET w == Walk(l)
    IN  /\ Len(w) <= Cardinality(Entries)
        /\ \A i \in DOMAIN w : l.prev[w[i]] = w[IF i = 1 THEN 1 ELSE i - 1]

-----------------------------------------------------------------------------
(* The tree *)

EmptyTree ==
    [folders |-> {Root}, foldersDirty |-> {Root}, filesDirty |-> {Root}, files |-> {},
     normal |-> [e \in Entries |-> "none"], info |-> [e \in Entries |-> "dirty"],
     lru |-> EmptyList,
     twice |-> {},    \* folders entered in their parent's list more than once
     \* not in the code: clean folders whose last listing failed, and entries
     \* and folders last changed on the camera by a call that failed
     unread |-> {}, lost |-> {}, lostDirs |-> {}]

MayFail(x, p) ==
    /\ Len(p) \in FaultDepths
    /\ Cardinality(x.unread) + Cardinality(x.lost) + Cardinality(x.lostDirs) < MaxFaults

(* delete_file and delete_all_files: entries go with all they hold. *)
DropEntries(x, gone) ==
    [x EXCEPT !.files = @ \ gone, !.lost = @ \ gone,
              !.normal = [e \in Entries |-> IF e \in gone THEN "none" ELSE @[e]],
              !.info = [e \in Entries |-> IF e \in gone THEN "dirty" ELSE @[e]],
              !.lru = FoldSet(Unlink, @, {e \in gone : @.prev[e] # Nil})]

\* MUTANT of LoadFolders: only the subfolders themselves lose their files.
LoadFoldersNotRecursive(x, p, w) ==
    IF p \notin x.foldersDirty \/ p \in w.folders THEN x
    ELSE LET others == x.folders \ Below(p)
             listed == ChildrenIn(device.dirs, p)
             y == DropEntries(x, UNION {In(q) : q \in ChildrenIn(x.folders, p)})
         IN  [y EXCEPT !.folders = others \cup listed,
                       !.foldersDirty = ((@ \cap others) \ {p}) \cup listed,
                       !.filesDirty = (@ \cap others) \cup listed,
                       !.unread = @ \cap others,
                       !.lostDirs = @ \ Below(p), !.twice = @ \ Below(p)]

\* MUTANT of LoadFolders: a folder counts as clean though its listing failed.
LoadFoldersLatched(x, p, w) ==
    IF p \notin x.foldersDirty THEN x
    ELSE LET others == x.folders \ Below(p)
             listed == IF p \in w.folders THEN {} ELSE ChildrenIn(device.dirs, p)
             y == DropEntries(x, UNION {In(q) : q \in x.folders \cap Below(p)})
         IN  [y EXCEPT !.folders = others \cup listed,
                       !.foldersDirty = ((@ \cap others) \ {p}) \cup listed,
                       !.filesDirty = (@ \cap others) \cup listed,
                       !.unread = @ \cap others,
                       !.lostDirs = @ \ Below(p), !.twice = @ \ Below(p)]

(* gp_filesystem_list_folders behind the lookup of p: a dirty folder gets   *)
(* the camera's subfolders, and everything below it is forgotten first.     *)
LoadFolders(x, p, w) ==
    IF p \notin x.foldersDirty \/ p \in w.folders THEN x
    ELSE LET others == x.folders \ Below(p)
             listed == ChildrenIn(device.dirs, p)
             y == DropEntries(x, UNION {In(q) : q \in x.folders \cap Below(p)})
         IN  [y EXCEPT !.folders = others \cup listed,
                       !.foldersDirty = ((@ \cap others) \ {p}) \cup listed,
                       !.filesDirty = (@ \cap others) \cup listed,
                       !.unread = @ \cap others,
                       !.lostDirs = @ \ Below(p), !.twice = @ \ Below(p)]

(* lookup_folder: the known folders on the way to p are made clean. *)
Lookup(x, p, w) ==
    LET Clean[k \in 0 .. Len(p)] ==
            IF k = 0 THEN x ELSE LoadFolders(Clean[k - 1], SubSeq(p, 1, k - 1), w)
    IN  Clean[Len(p)]

(* gp_filesystem_list_files behind the lookup of p: the folder counts as    *)
(* clean before the camera is asked, and stays so when the camera fails.    *)
LoadFilesFrom(stored, x, p, w) ==
    IF p \notin x.filesDirty THEN x
    ELSE LET y == [DropEntries(x, In(p)) EXCEPT !.filesDirty = @ \ {p}]
         IN  IF p \in w.files THEN [y EXCEPT !.unread = @ \cup {p}]
             ELSE [y EXCEPT !.files = @ \cup (stored \cap In(p))]

LoadFiles(x, p, w) == LoadFilesFrom(device.files, x, p, w)

(* lookup_folder_file and gp_filesystem_list_files *)
Listed(x, p, w) == LoadFiles(Lookup(x, p, w), p, w)

ListsFiles(x, p, w) ==
    LET y == Lookup(x, p, w)
    IN  p \in y.folders /\ ~(p \in y.filesDirty /\ p \in w.files)

(* append_folder: of a path that is not known only the first missing folder *)
(* is created, and that is the folder the caller goes on with.              *)
Appended(x, p) ==
    LET known == CHOOSE k \in 0 .. Len(p) :
                     /\ SubSeq(p, 1, k) \in x.folders
                     /\ k = Len(p) \/ SubSeq(p, 1, k + 1) \notin x.folders
    IN  SubSeq(p, 1, IF known = Len(p) THEN known ELSE known + 1)

(* append_folder_one: put first in the list, known already or not *)
NewFolder(x, p) ==
    [x EXCEPT !.folders = @ \cup {p}, !.foldersDirty = @ \cup {p}, !.filesDirty = @ \cup {p},
              !.twice = IF p \in x.folders THEN @ \cup {p} ELSE @]

(* gp_filesystem_append *)
AppendFile(x, e, w) ==
    LET p == e[1]
        y == Lookup(x, p, w)
        f == Appended(y, p)
        z == IF p \in y.folders THEN y ELSE NewFolder(y, f)
        filled == IF f \in z.filesDirty THEN Listed(z, p, w) ELSE z
    IN  IF f \in z.filesDirty /\ ~ListsFiles(z, p, w) THEN filled
        ELSE [filled EXCEPT !.files = @ \cup {<<f, e[2]>>}]

-----------------------------------------------------------------------------
(* Calls of the application.  Each step sets fs to what the call leaves.    *)

Init ==
    /\ \E dirs \in SUBSET Paths, files \in SUBSET Entries :
        /\ Root \in dirs /\ \A p \in dirs \ {Root} : Front(p) \in dirs
        /\ \A e \in files : e[1] \in dirs
        /\ device = [dirs |-> dirs, files |-> files]
    /\ fs = EmptyTree
    /\ host = {} /\ news = << >>

(* Files known to no card stay known as long as their entries do. *)
Leaves(x) == fs' = x /\ host' = host \cap x.files

(* gp_filesystem_count, and a call on folder p that the driver refuses *)
LookupFolder(p, w) == Leaves(Lookup(fs, p, w)) /\ UNCHANGED <<device, news>>

(* gp_filesystem_list_files, and a call on a file of p that the driver refuses *)
ListFiles(p, w) == Leaves(Listed(fs, p, w)) /\ UNCHANGED <<device, news>>

(* gp_filesystem_list_folders, and a refused gp_filesystem_remove_dir *)
ListFolders(p, w) ==
    /\ LET x == Lookup(fs, p, w)
       IN  Leaves(IF p \in x.folders THEN LoadFolders(x, p, w) ELSE x)
    /\ UNCHANGED <<device, news>>

GetInfo(e, w) ==
    LET x == Listed(fs, e[1], w)
    IN  /\ e \in x.files \cap device.files /\ x.info[e] = "dirty"
        /\ Leaves([x EXCEPT !.info[e] = "current"])
        /\ UNCHANGED <<device, news>>

\* MUTANT of AfterSetInfo: a failed change leaves the information clean.
TrustsSetInfo(x, e, field, outcome) ==
    CASE outcome = "refused" \/ (outcome = "done" /\ field = "permissions") -> x
      [] OTHER -> [x EXCEPT !.info[e] = IF @ = "current" THEN "old" ELSE @]

(* What gp_filesystem_set_info makes of the driver's answer: of the fields  *)
(* that can be set only the permissions are taken over.                     *)
AfterSetInfo(x, e, field, outcome) ==
    CASE outcome # "done" -> [x EXCEPT !.info[e] = "dirty"]
      [] outcome = "done" /\ field = "permissions" -> x
      [] OTHER -> [x EXCEPT !.info[e] = IF @ = "current" THEN "old" ELSE @]

(* The file information of the camera is changed, in whole, in part or not. *)
SetInfo(e, field, outcome, w) ==
    LET x == Listed(fs, e[1], w)
    IN  /\ e \in x.files
        /\ outcome # "refused" => e \in device.files
        /\ Leaves(AfterSetInfo(x, e, field, outcome))
        /\ UNCHANGED <<device, news>>

(* What the driver attaches to an entry it has, gp_filesystem_set_file_noop *)
Attach(x, e) ==
    LET y == Update(x, e)
    IN  IF ListIntact(y.lru) THEN [y EXCEPT !.normal[e] = "current"] ELSE y

(* A driver passes on content it got for free, as in jd11 and pccam300; on  *)
(* the way the file's information may be read.                              *)
SetFileNoop(e, w) ==
    LET x == Listed(fs, e[1], w)
    IN  /\ e \in x.files \cap device.files
        /\ \E i \in {x.info[e], IF x.info[e] = "dirty" THEN "current" ELSE x.info[e]} :
               /\ e \in InfoUsed \/ i = x.info[e]
               /\ Leaves([Attach(x, e) EXCEPT !.info[e] = i])
        /\ UNCHANGED <<device, news>>

(* What the tree holds of e is no longer what the camera has. *)
Outdated(x, e) ==
    [x EXCEPT !.normal[e] = IF @ = "none" THEN @ ELSE "old",
              !.info[e] = IF @ = "dirty" THEN @ ELSE "old"]

(* The camera stored or deleted e, but the driver's call failed: the caller *)
(* gets the error, and nothing in the tree is changed.                      *)
Lost(x, e) == [Outdated(x, e) EXCEPT !.lost = @ \cup {e}]

DeleteFile(e, answered, w) ==
    LET x == Listed(fs, e[1], w)
    IN  /\ e \in x.files \cap device.files
        /\ device' = [device EXCEPT !.files = @ \ {e}]
        /\ answered \/ MayFail(x, e[1])
        /\ Leaves(IF answered THEN DropEntries(x, {e}) ELSE Lost(x, e))
        /\ UNCHANGED news

DeleteFileNoop(e, w) ==
    LET x == Listed(fs, e[1], w)
    IN  /\ e \in x.files \cap host
        /\ Leaves(DropEntries(x, {e}))
        /\ UNCHANGED <<device, news>>

\* MUTANT of MarkDirty: the folder stays clean over the deletion.
TrustsFolder(x, p) == x

MarkDirty(x, p) == [x EXCEPT !.filesDirty = @ \cup {p}, !.unread = @ \ {p}]

(* delete_all_func deletes every file or stops after some; then the folder, *)
(* marked dirty before, is listed again and its files are deleted one by    *)
(* one until that fails, too; the deletion that fails may have been made.   *)
(* (Without a delete_all_func the call is a sequence of DeleteFile.)        *)
DeleteAll(p, w) ==
    LET x == MarkDirty(Lookup(fs, p, w), p)
        mine == device.files \cap In(p)
    IN  /\ p \in Lookup(fs, p, w).folders
        /\ \/ /\ device' = [device EXCEPT !.files = @ \ mine]
              /\ Leaves([DropEntries(x, In(p)) EXCEPT !.filesDirty = @ \ {p}])
           \/ \E first \in SUBSET mine, v \in {w, [w EXCEPT !.files = {p}]} :
                 LET y == LoadFilesFrom(device.files \ first, x, p, v)
                     listed == (mine \cap y.files) \ first
                 IN  /\ v = w \/ MayFail(x, p)
                     /\ \E then \in SUBSET listed :
                           \/ /\ device' = [device EXCEPT !.files = @ \ (first \cup then)]
                              /\ Leaves(DropEntries(y, then))
                           \/ \E e \in listed \ then :
                                 /\ MayFail(y, p)
                                 /\ device' = [device EXCEPT !.files = @ \ (first \cup then \cup {e})]
                                 /\ Leaves(Lost(DropEntries(y, then), e))
        /\ UNCHANGED news

(* append_file of an entry already there fails and leaves what it holds. *)
Stored(x, e) ==
    IF e \in x.files THEN Outdated(x, e)
    ELSE [x EXCEPT !.files = @ \cup {e}, !.normal[e] = "current"]

PutFile(e, answered, w) ==
    LET x == Lookup(fs, e[1], w)
    IN  /\ e[1] \in x.folders \cap device.dirs /\ e \notin device.files \cup host
        /\ device' = [device EXCEPT !.files = @ \cup {e}]
        /\ answered \/ MayFail(x, e[1])
        /\ Leaves(IF answered THEN Stored(x, e) ELSE Lost(x, e))
        /\ UNCHANGED news

MakeDir(p, name, answered, w) ==
    LET x == Lookup(fs, p, w)
        q == Append(p, name)
    IN  /\ p \in x.folders \cap device.dirs /\ q \in Paths \ device.dirs
        /\ device' = [device EXCEPT !.dirs = @ \cup {q}]
        /\ answered \/ MayFail(x, q)
        /\ Leaves(IF answered THEN NewFolder(x, q) ELSE [x EXCEPT !.lostDirs = @ \cup {q}])
        /\ UNCHANGED news

(* The camera deletes a folder with all that is in it, as DeleteObject does. *)
RemovableDir(x, q) ==
    q \in x.folders /\ ChildrenIn(x.folders, q) = {} /\ In(q) \cap x.files = {}

WithoutFolder(x, q) ==
    [DropEntries(x, In(q)) EXCEPT
        !.folders = @ \ {q}, !.foldersDirty = @ \ {q}, !.filesDirty = @ \ {q},
        !.unread = @ \ {q}, !.lostDirs = @ \ {q}, !.twice = @ \ {q}]

(* delete_folder: of a folder entered twice the older entry comes to light, *)
(* and that one the camera deleted before without an answer.                *)
FolderDeleted(x, q) ==
    LET y == WithoutFolder(x, q)
    IN  \/ q \notin x.twice /\ Leaves(y)
        \/ /\ q \in x.twice
           /\ \E d, f, t \in SUBSET {q} :
                 Leaves([y EXCEPT !.folders = @ \cup {q}, !.foldersDirty = @ \cup d,
                                  !.filesDirty = @ \cup f, !.lostDirs = @ \cup {q}, !.twice = @ \cup t])

(* A removal that fails may have deleted all or some of what is there. *)
RemoveDir(p, name, w) ==
    LET x == LoadFolders(Lookup(fs, p, w), p, w)
        q == Append(p, name)
        tree == {q} \cup Below(q)
        Deletes(dirs, files) == device' = [dirs |-> device.dirs \ dirs, files |-> device.files \ files]
        filesIn(dirs) == UNION {In(d) : d \in dirs}
    IN  /\ p \in x.folders /\ q \in device.dirs
        /\ RemovableDir(x, q)
        /\ \/ /\ Deletes(tree, filesIn(tree))
              /\ FolderDeleted(x, q)
           \/ \E dirs \in SUBSET tree, files \in SUBSET filesIn(tree) :
                 /\ \A d \in dirs : Below(d) \subseteq dirs
                 /\ filesIn(dirs) \subseteq files
                 /\ MayFail(x, q)
                 /\ Deletes(dirs, files)
                 /\ device' # device
                 /\ Leaves([x EXCEPT !.lostDirs = @ \cup tree])
        /\ UNCHANGED news

(* gp_filesystem_reset *)
Emptied(x) == IF ListIntact(x.lru) THEN EmptyTree ELSE x

Reset == Leaves(Emptied(fs)) /\ UNCHANGED <<device, news>>

-----------------------------------------------------------------------------
(* The camera and its driver *)

(* A capture to the memory of the camera: the driver downloads the picture  *)
(* and enters it in the root folder; no card has it.                        *)
CaptureToHost(name, w) ==
    LET e == <<Root, name>>
        x == AppendFile(fs, e, w)
    IN  /\ HostCaptures
        /\ e \notin device.files \cup host \cup fs.files
        /\ IF e \in x.files
           THEN /\ fs' = [Attach(x, e) EXCEPT !.info[e] = IF e \in InfoUsed THEN "current" ELSE @]
                /\ host' = (host \cap x.files) \cup {e}
           ELSE Leaves(x)
        /\ UNCHANGED <<device, news>>

Reports(kind, e) == Len(news) < MaxNews /\ news' = Append(news, <<kind, e>>)

CameraAdds(e) ==
    LET missing == {p \in Paths : IsPrefix(p, e[1])} \ device.dirs
    IN  /\ e \notin device.files \cup host /\ Cardinality(missing) <= MaxNewDirs
        /\ device' = [dirs |-> device.dirs \cup missing, files |-> device.files \cup {e}]
        /\ fs' = Outdated(fs, e)
        /\ Reports("Added", e) /\ UNCHANGED host

CameraRemoves(e) ==
    /\ e \in device.files
    /\ device' = [device EXCEPT !.files = @ \ {e}]
    /\ fs' = Outdated(fs, e)
    /\ Reports("Removed", e) /\ UNCHANGED host

CameraChanges(e) ==
    /\ e \in device.files /\ fs.info[e] = "current"
    /\ fs' = [fs EXCEPT !.info[e] = "old"]
    /\ Reports("Changed", e) /\ UNCHANGED <<device, host>>

(* What the driver makes of an event: an object still there is appended     *)
(* with the information that came with it, which one that is reported as    *)
(* changed has to ask for again; a removed object resets the tree.          *)
Handled(kind, e, w) ==
    LET x == AppendFile(fs, e, w)
        known == e \in x.files
    IN  CASE kind = "Removed" -> Emptied(fs)
          [] kind # "Removed" /\ e \notin device.files -> fs
          [] OTHER -> [x EXCEPT !.info[e] =
                          CASE ~known -> @
                            [] known /\ kind = "Changed" -> "dirty"
                            [] OTHER -> IF e \in InfoUsed THEN "current" ELSE @]

HandleEvent(w) ==
    /\ news # << >>
    /\ Leaves(Handled(Head(news)[1], Head(news)[2], w))
    /\ news' = Tail(news) /\ UNCHANGED device

(* A call for p lists the subfolders of folders on the way to p and the     *)
(* files of p, if those may be dirty; at most one listing of a call fails.  *)
Failures(p) ==
    LET unsure == {q \in Paths : \/ q \notin fs.folders
                                 \/ \E r \in fs.foldersDirty : IsPrefix(r, q)}
    IN  {w \in [folders : SUBSET {q \in unsure : IsPrefix(q, p) /\ Len(q) \in FaultDepths},
                files : SUBSET {q \in {p} \cap (unsure \cup fs.filesDirty) : MayFail(fs, q)}] :
            Cardinality(w.folders) + Cardinality(w.files) <= 1}

FolderCall(p) ==
    \E w \in Failures(p) :
        \/ LookupFolder(p, w) \/ ListFiles(p, w) \/ ListFolders(p, w) \/ DeleteAll(p, w)
        \/ \E d \in FolderNames : RemoveDir(p, d, w) \/ \E answered \in BOOLEAN : MakeDir(p, d, answered, w)

FileCall(e) ==
    \E w \in Failures(e[1]) :
        \/ SetFileNoop(e, w) \/ DeleteFileNoop(e, w)
        \/ \E answered \in BOOLEAN :
              \/ DeleteFile(e, answered, w)
              \/ Len(e[1]) \in UploadDepths /\ PutFile(e, answered, w)
        \/ /\ e \in InfoUsed
           /\ \/ GetInfo(e, w)
              \/ \E field \in InfoFields, outcome \in {"done", "partly", "refused"} :
                     SetInfo(e, field, outcome, w)

Driver ==
    \/ \E w \in Failures(Root), n \in FileNames : CaptureToHost(n, w)
    \/ news # << >> /\ \E w \in Failures(Head(news)[2][1]) : HandleEvent(w)

Camera ==
    \E e \in Entries :
        /\ Len(e[1]) \in NewsDepths
        /\ CameraAdds(e) \/ CameraRemoves(e) \/ CameraChanges(e)

Next ==
    \/ Reset
    \/ \E p \in Paths : FolderCall(p)
    \/ \E e \in Entries : FileCall(e)
    \/ Driver
    \/ Camera

Spec == Init /\ [][Next]_vars

-----------------------------------------------------------------------------
(* Properties *)

(* The type of every field of the tree, the list and the events. *)
TypeOK ==
    /\ device \in [dirs : SUBSET Paths, files : SUBSET Entries]
    /\ fs.folders \in SUBSET Paths /\ fs.foldersDirty \in SUBSET fs.folders
    /\ fs.filesDirty \in SUBSET fs.folders /\ fs.unread \in SUBSET fs.folders
    /\ fs.twice \in SUBSET fs.folders /\ fs.lost \in SUBSET Entries /\ fs.lostDirs \in SUBSET Paths
    /\ fs.files \in SUBSET Entries /\ \A e \in fs.files : e[1] \in fs.folders
    /\ fs.normal \in [Entries -> {"none", "current", "old"}]
    /\ fs.info \in [Entries -> {"dirty", "current", "old"}]
    /\ fs.lru.first \in Entries \cup {Nil} /\ fs.lru.last \in Entries \cup {Nil}
    /\ fs.lru.prev \in [Entries -> Entries \cup {Nil}]
    /\ fs.lru.next \in [Entries -> Entries \cup {Nil}]
    /\ host \in SUBSET Entries
    /\ Len(news) <= MaxNews
    /\ \A i \in DOMAIN news : news[i] \in {"Added", "Removed", "Changed"} \X Entries

(* The list of downloads is what gp_filesystem_lru_check expects, ends at   *)
(* lru_last, and holds exactly live entries with content: no entry freed by *)
(* a listing, a deletion or a reset is still linked, and none dropped from  *)
(* the list keeps a pointer into it.                                        *)
LruIntact ==
    LET w == Walk(fs.lru)
        held == {w[i] : i \in DOMAIN w}
    IN  /\ ListIntact(fs.lru)
        /\ fs.lru.last = IF w = << >> THEN Nil ELSE Last(w)
        /\ \A e \in Entries \ held : fs.lru.prev[e] = Nil /\ fs.lru.next[e] = Nil
        /\ \A e \in held : e \in fs.files /\ fs.normal[e] # "none"

Doubtful ==
    {e \in Entries : \/ e[1] \in fs.filesDirty
                     \/ \E p \in fs.foldersDirty : IsStrictPrefix(p, e[1])}

(* The linked list with its pruning behaves as the order of use it stands   *)
(* for: only the pictures used longest ago make room, and no other is lost  *)
(* but with its entry, when its folder is read again or to be cleared.      *)
Downloads(l) == {e \in Entries : l.prev[e] # Nil}

InOrderOfUse(l) ==
    LET w == Walk(l) IN UNION {{w[i]} \X {w[j] : j \in i + 1 .. Len(w)} : i \in DOMAIN w}

Queue == INSTANCE LruQueue WITH
    Items <- Entries, Folders <- {In(p) : p \in Paths},
    held <- Downloads(fs.lru), older <- InOrderOfUse(fs.lru), known <- fs.files, doubtful <- Doubtful

KeepsRecentlyUsed == Queue!Spec

RemovalPending == \E i \in DOMAIN news : news[i][1] = "Removed"
AboutPending(kinds) == {news[i][2] : i \in {j \in DOMAIN news : news[j][1] \in kinds}}

(* A folder that counts as clean lists the files the camera has in it and   *)
(* those it never had, whatever was deleted in part, captured, uploaded or  *)
(* listed before; a folder whose listing failed may lack some.  Only of the *)
(* very files whose deletion or upload was made by a call that failed       *)
(* nothing is said, until their folder is listed again: a deletion of all   *)
(* files leaves at most one of these behind, the one it stopped at.         *)
CleanIsExact ==
    RemovalPending \/
    \A p \in fs.folders \ fs.filesDirty :
        \A e \in In(p) \ (AboutPending({"Added"}) \cup fs.lost) :
            /\ e \in fs.files => e \in device.files \cup host
            /\ e \in device.files /\ p \notin fs.unread => e \in fs.files

(* Every known folder is on the camera, and a folder whose subfolders count *)
(* as clean knows them all, but those of files not announced yet.  Nothing  *)
(* is said only of a folder whose making failed, and of one whose removal   *)
(* failed with those in it, until a folder above is listed again.           *)
KnownFoldersExact ==
    /\ fs.folders \subseteq device.dirs \cup fs.lostDirs
    /\ RemovalPending \/
       \A p \in fs.folders \ fs.foldersDirty :
           \A q \in ChildrenIn(device.dirs, p) \ (fs.folders \cup fs.lostDirs) :
               \E e \in AboutPending({"Added"}) : IsPrefix(q, e[1])

(* A picture or file information served from the tree is the camera's own,  *)
(* unless an event that says otherwise waits to be handled; a change that   *)
(* failed half-way counts as one the tree must not vouch for.  Not so of a  *)
(* file the camera deleted without an answer: its entry keeps what it held. *)
ServesCurrent ==
    \A e \in fs.files \ fs.lost :
        /\ fs.normal[e] = "old" => RemovalPending
        /\ fs.info[e] = "old" => RemovalPending \/ e \in AboutPending({"Changed"})

(* gp_filesystem_remove_dir: "Make sure there are neither files nor folders *)
(* in the folder that is to be removed."                                    *)
RemoveDirOnlyEmpty ==
    [][device'.dirs \subseteq device.dirs =>
          \A p \in device.dirs \ device'.dirs :
              In(p) \cap device.files = {} /\ ChildrenIn(device.dirs, p) = {}]_vars

(* gp_camera_capture: "The file can then be downloaded using                *)
(* gp_camera_file_get": a picture only the host has is held until it is     *)
(* deleted.                                                                 *)
CaptureStaysFetchable ==
    \A e \in host : e \in fs.files /\ fs.normal[e] # "none"

(* gp_filesystem_append: "Tells the fs that there is a file called filename *)
(* in folder called folder." No file is announced in another folder.        *)
AnnouncedWhereItIs ==
    RemovalPending \/
    \A e \in fs.files \ fs.lost : e \in device.files \cup host \/ e \in AboutPending({"Added"})
=============================================================================
