----------------------------- MODULE MCStudIPFs -----------------------------
(* Two instances, one rooted at a folder, and what their callers do. *)
EXTENDS StudIPFs

CONSTANTS f, g

RootAndFolder == f :> <<>> @@ g :> <<"d">>

Empty == [i \in {} |-> Folder(Top, "d")]
EmptyFolder == 1 :> Folder(Top, "d")
FolderWithFile == EmptyFolder @@ 2 :> File(1, "x", 1)
FileAtTop == EmptyFolder @@ 2 :> File(Top, "x", 1)
OtherFolder == 1 :> Folder(Top, "e")

AllFolders == {<<"d">>, <<"e">>, <<"d", "e">>}
OneFolder == {<<"d">>}
TwoFolders == {<<"d">>, <<"e">>}
TopOrFolder == {<<"x">>, <<"d", "x">>}
InFolder == {<<"d", "x">>}
OtherName == {<<"y">>, <<"d", "x">>}
TwoInFolder == {<<"d", "x">>, <<"d", "y">>}

\* Files that come and go, with requests that are done and not confirmed.
OfFiles ==
  [ dirs |-> OneFolder, paths |-> TopOrFolder, sizes |-> {1, 2}, starts |-> {FolderWithFile},
    faults |-> {"refused", "lost"}, maxFaults |-> 1, others |-> {}, stale |-> FALSE,
    ops |-> {"put", "update", "remove", "move"}, maxCalls |-> 3, maxIds |-> 9 ]

\* The same with files that a move within the folder renames.
OfRenames == [OfFiles EXCEPT !.paths = TwoInFolder, !.sizes = {1}]

\* Files that take another name on their way to another folder.
OfMoves == [OfFiles EXCEPT !.paths = OtherName, !.sizes = {1}, !.ops = {"put", "move"}]

\* Folders, with a file in one of them.
OfFolders ==
  [OfFiles EXCEPT !.dirs = AllFolders, !.paths = InFolder, !.sizes = {1},
                  !.starts = {Empty, FolderWithFile},
                  !.ops = {"put", "mkdir", "rmdir", "purge", "dirmove"}]

\* Objects that files have outlived.
OfStale ==
  [OfFiles EXCEPT !.faults = {"refused"}, !.stale = TRUE,
                  !.ops = {"put", "update", "remove", "move", "purge"}]

\* Other clients who upload and remove.
WithOthers ==
  [OfFiles EXCEPT !.faults = {"refused"}, !.others = {"upload", "remove"},
                  !.ops = {"put", "update", "move", "rmdir"}, !.maxCalls = 2,
                  !.maxIds = 5]

\* What misleads calls: a purge that goes on with an old tree,
WithOldTrees ==
  [OfStale EXCEPT !.dirs = TwoFolders, !.paths = InFolder, !.sizes = {1},
                  !.ops = {"remove", "purge", "dirmove"}]

\* a folder that was moved and nobody knows,
WithLostMoves ==
  [OfFiles EXCEPT !.dirs = TwoFolders, !.starts = {FileAtTop}, !.faults = {"lost"},
                  !.sizes = {1}, !.ops = {"move", "dirmove"}]

\* two instances that differ about the course,
WithTwoTrees ==
  [OfFolders EXCEPT !.dirs = TwoFolders \cup {<<"d", "e", "h">>}, !.starts = {OtherFolder},
                    !.faults = {"refused"}, !.ops = {"mkdir", "dirmove"}]

\* and all of it together, with other clients.
WithAll ==
  [OfFiles EXCEPT !.dirs = TwoFolders, !.paths = {<<"d", "x">>, <<"e", "x">>},
                  !.sizes = {1}, !.others = {"upload", "remove"}, !.stale = TRUE,
                  !.ops = {"put", "move", "dirmove"}, !.maxCalls = 2, !.maxIds = 5]

FilesAndStale == {OfFiles, OfRenames, OfMoves, OfStale, WithOldTrees, WithLostMoves}
FoldersAndOthers == {OfFolders, WithOthers, WithTwoTrees, WithAll}

\* Another client uploads before an rmdir.
BeforeRmdir ==
  {[OfFolders EXCEPT !.starts = {EmptyFolder}, !.faults = {}, !.others = {"upload"},
                     !.ops = {"rmdir"}, !.maxCalls = 1]}

\* A Put of a size that is not known.
OfUnknown ==
  {[OfFolders EXCEPT !.sizes = {1, -1}, !.faults = {}, !.ops = {"put"}, !.maxCalls = 1]}
=============================================================================
