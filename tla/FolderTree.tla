----------------------------- MODULE FolderTree -----------------------------
(***************************************************************************)
(* What the node table promises its callers: folders that hold items, with *)
(* no mention of paths.  An item knows the folder it is in and nothing     *)
(* else; what lies under a folder is worked out from those pointers.       *)
(***************************************************************************)
CONSTANTS Items, Top    \* Top: the place of an item that lies in no folder

VARIABLES
    place,    \* a function from the items that exist to the folder of each
    file,     \* the items that are files
    gone      \* the items that were discarded

vars == << place, file, gone >>

(* All that lies under f: the least set with f's items and theirs. *)
Under(f) ==
    {m \in DOMAIN place :
        \A S \in SUBSET DOMAIN place :
            (\A c \in DOMAIN place : place[c] \in S \cup {f} => c \in S) => m \in S}

(* An item is visible when neither it nor a folder above it is gone. *)
Visible(n) ==
    /\ n \in DOMAIN place \ gone
    /\ \A f \in gone : n \notin Under(f)

Init == place = [m \in {} |-> m] /\ file = {} /\ gone = {}

AddTop(n) ==
    /\ n \notin DOMAIN place
    /\ place' = [m \in DOMAIN place \cup {n} |-> IF m = n THEN Top ELSE place[m]]
    /\ UNCHANGED << file, gone >>

Add(n, f, isFile) ==
    /\ n \notin DOMAIN place
    /\ Visible(f)
    /\ f \notin file
    /\ place' = [m \in DOMAIN place \cup {n} |-> IF m = n THEN f ELSE place[m]]
    /\ file' = IF isFile THEN file \cup {n} ELSE file
    /\ UNCHANGED gone

(* Only n changes its place; what lies under it comes along. *)
Relocate(n, f) ==
    /\ Visible(n) /\ Visible(f)
    /\ place[n] # Top
    /\ f \notin file
    /\ f \notin Under(n) \cup {n}
    /\ place' = [place EXCEPT ![n] = f]
    /\ UNCHANGED << file, gone >>

Discard(n) ==
    /\ Visible(n)
    /\ place[n] # Top
    /\ gone' = gone \cup {n} \cup Under(n)
    /\ UNCHANGED << place, file >>

(* The item and all under it cease to exist. *)
Erase(n) ==
    /\ n \in DOMAIN place
    /\ LET S == {n} \cup Under(n) IN
        /\ place' = [m \in DOMAIN place \ S |-> place[m]]
        /\ file' = file \ S
        /\ gone' = gone \ S

Next ==
    \/ \E n \in Items : AddTop(n) \/ Discard(n) \/ Erase(n)
    \/ \E n, f \in Items : Relocate(n, f)
    \/ \E n, f \in Items, isFile \in BOOLEAN : Add(n, f, isFile)

Spec == Init /\ [][Next]_vars
=============================================================================
