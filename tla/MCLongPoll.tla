----------------------------- MODULE MCLongPoll -----------------------------
(* Instances of LongPoll for TLC: two polls, two POSTs and two
   connections, so that whoever comes third finds none. *)
EXTENDS LongPoll
=============================================================================
