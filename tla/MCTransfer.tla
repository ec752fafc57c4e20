------------------------------ MODULE MCTransfer ------------------------------
(***************************************************************************)
(* Two payload files: notes stands for bundle-notes.txt and key for        *)
(* bundle/key.asc.  As paths, bundle sorts before bundle-notes.txt; as     *)
(* characters, "-" sorts before "/".  With one file of a folder and one    *)
(* name that extends the folder's the two orders therefore differ, and     *)
(* for file sets without such a pair they agree.                           *)
(***************************************************************************)
EXTENDS Transfer

CONSTANTS notes, key

MCPayload == {notes, key}

\* The drafts' names start with a dot and sort before both.
MCDraft == [c \in Creators |-> <<"draft", c>>]
DraftOrder == SetToSeq(Drafts)
Listings(order) == [S \in SUBSET Paths |-> SelectSeq(order, LAMBDA p : p \in S)]
PathOrder == Listings(DraftOrder \o <<key, notes>>)
NameOrder == Listings(DraftOrder \o <<notes, key>>)
=============================================================================
