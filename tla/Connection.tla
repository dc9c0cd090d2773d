------------------------------ MODULE Connection -----------------------------
(***************************************************************************)
(* What a TcpConnection promises to the two ends: to the user, that it is  *)
(* reported up before anything can be sent, down at most once, and is gone *)
(* only after that; to the peer, a byte stream without gaps that ends, if  *)
(* the user shuts the connection down, only after everything accepted.     *)
(*                                                                         *)
(* How the bytes wait, which thread brings them and how the two ends learn *)
(* of each other are left to TcpConnection.                                *)
(***************************************************************************)
EXTENDS Integers, Sequences

VARIABLES
  status,       \* "connecting", "up", "down" or "gone"
  accepted,     \* bytes taken for sending
  sent,         \* how many of them the kernel has been given
  delivered,    \* bytes the peer has got
  fin           \* has the end of the stream been announced?

streamVars == <<accepted, sent, delivered, fin>>
vars == <<status, streamVars>>

Init ==
  /\ status = "connecting"
  /\ accepted = << >>
  /\ sent = 0
  /\ delivered = << >>
  /\ fin = FALSE

(* The steps of a connection's life.  One that is shut down when its       *)
(* server is destroyed goes without having been reported down.             *)
Move ==
  /\ <<status, status'>> \in {<<"connecting", "up">>, <<"up", "down">>,
                              <<"up", "gone">>, <<"down", "gone">>}
  /\ UNCHANGED streamVars

(* More is accepted, until the end of the stream.  The kernel is given     *)
(* some of it at once only if nothing older is waiting.                    *)
Accept ==
  /\ status \in {"up", "down"} /\ ~fin
  /\ Len(accepted') > Len(accepted)
  /\ accepted = SubSeq(accepted', 1, Len(accepted))
  /\ sent' >= sent /\ sent' <= Len(accepted')
  /\ sent' > sent => sent = Len(accepted)
  /\ UNCHANGED <<status, delivered, fin>>

(* The kernel is given what has been waiting; that may have been all there *)
(* was to come.                                                            *)
Send ==
  /\ sent' > sent /\ sent' <= Len(accepted)
  /\ fin' \in {fin, sent' = Len(accepted)}
  /\ UNCHANGED <<status, accepted, delivered>>

Deliver ==
  /\ Len(delivered) < sent
  /\ delivered' = Append(delivered, accepted[Len(delivered) + 1])
  /\ UNCHANGED <<status, accepted, sent, fin>>

Finish ==
  /\ status \in {"up", "down"} /\ ~fin
  /\ sent = Len(accepted)
  /\ fin' = TRUE
  /\ UNCHANGED <<status, accepted, sent, delivered>>

Next == Move \/ Accept \/ Send \/ Deliver \/ Finish

Spec == Init /\ [][Next]_vars
=============================================================================
