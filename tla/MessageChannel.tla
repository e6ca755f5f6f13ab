--------------------------- MODULE MessageChannel ---------------------------
(***************************************************************************)
(* What a gclaw-ipc connection promises in one direction, without a byte:  *)
(* the reader is handed what was sent, whole, in order and once, and is    *)
(* told that the stream has ended only when nothing whole is left in it.   *)
(***************************************************************************)
EXTENDS Naturals, Sequences

CONSTANT Items  \* what frames are to a reader: records with a kind and a payload

VARIABLES
    sent,    \* the items the sender started to send
    whole,   \* how many of them it has sent to the end
    gone,    \* the sender has left, or the connection is lost
    got,     \* the items the reader was handed
    result   \* what its last call came to

vars == <<sent, whole, gone, got, result>>

Init ==
    /\ sent = <<>> /\ whole = 0
    /\ gone = FALSE
    /\ got = <<>>
    /\ result = "none"

Start ==
    /\ ~gone /\ whole = Len(sent)
    /\ \E i \in Items : sent' = Append(sent, i)
    /\ UNCHANGED <<whole, gone, got, result>>

Complete ==
    /\ ~gone /\ whole < Len(sent)
    /\ whole' = Len(sent)
    /\ UNCHANGED <<sent, gone, got, result>>

(* With an item half sent, or not. *)
Leave ==
    /\ ~gone
    /\ gone' = TRUE
    /\ UNCHANGED <<sent, whole, got, result>>

NextItem == sent[Len(got) + 1]

Deliver ==
    /\ Len(got) < whole
    /\ NextItem.kind # "tooLarge"
    /\ got' = Append(got, NextItem)
    /\ result' = NextItem.kind
    /\ UNCHANGED <<sent, whole, gone>>

(* An item over the limit is refused as soon as its size is known, and     *)
(* never passed over.                                                      *)
Refuse ==
    /\ Len(got) < Len(sent)
    /\ NextItem.kind = "tooLarge"
    /\ result' = "tooLarge"
    /\ UNCHANGED <<sent, whole, gone, got>>

EndOfStream ==
    /\ gone /\ Len(got) = whole
    /\ \/ result' = "eof"
       \/ result' = "incomplete" /\ whole < Len(sent)
    /\ UNCHANGED <<sent, whole, gone, got>>

(* A call may be dropped at any time, and fail once the connection is gone. *)
NoAnswer ==
    /\ result' = "cancelled" \/ (gone /\ result' = "failed")
    /\ UNCHANGED <<sent, whole, gone, got>>

Next ==
    \/ Start \/ Complete \/ Leave
    \/ Deliver \/ Refuse \/ EndOfStream \/ NoAnswer

Spec == Init /\ [][Next]_vars
=============================================================================
