--------------------------- MODULE MCFilesystems ---------------------------
(***************************************************************************)
(* The file systems with the inode table of NodeTable and the reading of a *)
(* directory, for TLC: fs says which of the three runs, and the variables  *)
(* of the others keep their values.  The names in the directory are the    *)
(* three of hello and two longer ones; the sizes are just at, below and    *)
(* above the places where records end.                                     *)
(***************************************************************************)
EXTENDS Passthrough, Readdir

MCNameLens == <<1, 2, 9, 8, 17>>
MCSizes == {48, 63, 64, 65, 103, 104, 136, 183, 184}

VARIABLES
    fs,
    knl2, granted2, forgets2, map2, key_to_ino2, next_ino2, there

T == INSTANCE PathThrough WITH
        knl <- knl2, granted <- granted2, forgets <- forgets2, next_ino <- next_ino2,
        map <- map2, key_to_ino <- key_to_ino2

pathVars == <<knl2, granted2, forgets2, map2, key_to_ino2, next_ino2, there>>
allVars == <<fs, vars, pathVars, dirVars>>

MCInit ==
    /\ fs \in {"passthrough", "path_through", "directory"}
    /\ Init /\ T!PathInit /\ DirInit
    /\ fs # "passthrough" => host = [n \in Names |-> None]
    /\ fs # "directory" => handler = "memfs"

PassthroughRuns == fs = "passthrough" /\ UNCHANGED <<fs, pathVars, dirVars>>
PathThroughRuns == fs = "path_through" /\ UNCHANGED <<fs, vars, dirVars>>
DirectoryRuns == fs = "directory" /\ UNCHANGED <<fs, vars, pathVars>>

MCNext ==
    \/ PassthroughRuns /\ Next
    \/ PathThroughRuns /\ T!PathNext
    \/ DirectoryRuns /\ DirNext

\* A process that reads a directory goes on until the end, and the daemon's loop is
\* always running.
MCSpec == MCInit /\ [][MCNext]_allVars /\ WF_allVars(DirectoryRuns /\ DirNext)

\* path_through keeps the promise about node ids, as passthrough does.
PathImplementsNodeIds == T!ImplementsNodeIds

\* A reader that keeps asking comes to the end of the directory: no offset leads
\* back to an entry already listed.
ListingEnds == fs = "directory" => <>(pc = "end")

============================================================================
