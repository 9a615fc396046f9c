---------------------------- MODULE EventLoopOps -----------------------------
(***************************************************************************)
(* EventLoop::wait_next_event of src/util/eventloop.cc for rules on file   *)
(* descriptors. A loop has a set of rules, numbered in the order in which  *)
(* they were added; the owner gives, as functions on them, their           *)
(* descriptor and direction, and evaluates their interest in its own       *)
(* state. The call is cut in two where poll returns: what poll has seen is *)
(* acted on later, when another thread may have changed the descriptors.   *)
(* No program here cancels a rule from outside, adds a rule without a      *)
(* descriptor, or sees POLLERR: those branches are left out.               *)
(***************************************************************************)
EXTENDS FiniteSetsExt, Integers

In == "In"
Out == "Out"

\* Rules that will get nothing more: their descriptor is at its end, or closed.
Spent(rules, fd, dir, eof, closed) ==
    {r \in rules : fd[r] \in closed \/ (dir[r] = In /\ fd[r] \in eof)}

\* What poll reports for the rules that remain: those it was asked about, those
\* of them that are ready, and those whose descriptor has hung up, asked or not.
Polled(asked, ready, hup) == [asked |-> asked, ready |-> asked \cap ready, hup |-> hup]

\* poll returns when there is anything to report.
Returns(seen) == seen.ready # {} \/ seen.hup # {}

\* Fault: a hangup is taken for the end although there is something to read.
DefunctOnHangup(seen, dir) == seen.hup

\* A hangup is the end of a rule that was asked about and has nothing ready, and
\* of a rule for writing in any case.
Defunct(seen, dir) ==
    {r \in seen.hup : (r \in seen.asked /\ r \notin seen.ready) \/ dir[r] = Out}

\* Only the first ready rule is served.
Served(seen, dir) ==
    LET able == seen.ready \ Defunct(seen, dir)
    IN  IF able = {} THEN {} ELSE {Min(able)}

\* The rules that are cancelled on the way to it.
Cancelled(seen, dir) ==
    {r \in Defunct(seen, dir) : \A s \in Served(seen, dir) : r < s}
=============================================================================
