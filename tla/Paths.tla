------------------------------- MODULE Paths -------------------------------
(***************************************************************************)
(* Paths of requests, as sequences of their segments, and the tests that   *)
(* zebra_day/web/auth.py and zebra_day/observability.py make of them.      *)
(* Both compare strings with startswith, which does not stop at the end of *)
(* a segment: "/statics" begins with "/static" as "/static/js" does.       *)
(***************************************************************************)
EXTENDS Naturals, Sequences

\* By segment: the name that the segment is longer than and begins with.
CONSTANT Longer

Begins(segment, name) ==
  segment = name \/ (segment \in DOMAIN Longer /\ Longer[segment] = name)

\* path.startswith(prefix), for a prefix that is not empty: its last segment
\* may go on in the path.
Under(route, prefix) ==
  /\ Len(route) >= Len(prefix)
  /\ \A i \in 1..Len(prefix) - 1 : route[i] = prefix[i]
  /\ Begins(route[Len(prefix)], prefix[Len(prefix)])

=============================================================================
