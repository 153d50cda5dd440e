---------------------------- MODULE MysqlSession ----------------------------
(***************************************************************************)
(* What node-mysql-native promises its caller, without packets, sockets,   *)
(* or prepared statements: the calls made on one client are served one at  *)
(* a time, in the order they were made, and each is finished exactly once. *)
(* MysqlClient implements this module.                                     *)
(***************************************************************************)
EXTENDS Naturals, Sequences

VARIABLES
  pending,    (* commands accepted and not finished, oldest first           *)
  active,     (* the command the server is working for, or 0                *)
  finished    (* commands finished, in the order in which they finished     *)

svars == <<pending, active, finished>>

SessionInit ==
  /\ pending  = <<>>
  /\ active   = 0
  /\ finished = <<>>

\* One turn of the event loop.  The caller may hand in new commands (an
\* execute brings its prepare along), the n oldest commands may finish, and
\* the oldest command that is left may be put to the server.  The command the
\* server is working for changes only when it finishes.
Turn(new, n) ==
  LET q    == pending \o new
      rest == SubSeq(q, n + 1, Len(q))
  IN /\ n <= Len(q)
     /\ pending'  = rest
     /\ finished' = finished \o SubSeq(q, 1, n)
     /\ \/ active' = 0
        \/ rest # <<>> /\ active' = Head(rest)
     /\ active # 0 /\ n = 0 => active' = active

SessionNext ==
  \E i \in {Len(pending) + Len(finished) + 1} :
    \E new \in {<<>>, <<i>>, <<i, i + 1>>} :
      \E n \in 0 .. Len(pending) + Len(new) : Turn(new, n)

SessionSpec == SessionInit /\ [][SessionNext]_svars
=============================================================================
