-------------------------- MODULE MCChatRoundTrip --------------------------
(* A session of two chat requests for TLC. *)
EXTENDS ChatRoundTrip, TLC

(* A name in both turns, and one in the first only. *)
TwoTurns == "r1" :> <<"jan", "ewa">> @@ "r2" :> <<"ewa">>

=============================================================================
