------------------------------- MODULE MCConn -------------------------------
(***************************************************************************)
(* Values of the constants of Conn for TLC: what the peer sends, and which *)
(* methods the goroutines call, in each of the runs.                       *)
(***************************************************************************)
EXTENDS Conn, TLC

BothRoles == BOOLEAN
ClientRole == {TRUE}

\* An orderly peer, and one that sends a record the library rejects.
PeerScripts == {<<"hs", "hs", "data", "alert">>, <<"hs", "hs", "frag", "bad">>}
OrderlyScripts == {<<"hs", "hs", "data", "alert">>}
\* A peer that ends without close_notify.
EofScripts == {<<"hs", "hs", "data">>}

AllCalls == Api
ReadCalls == {"Read"}

\* The goroutines are interchangeable (used for safety only).
ThreadSymmetry == Permutations(Threads)
=============================================================================
