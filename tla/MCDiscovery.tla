----------------------------- MODULE MCDiscovery -----------------------------
(* A small instance of Discovery.                                            *)
EXTENDS Discovery

CONSTANTS 
  r1, r2,   \* calls of MakeJSONRequest
  user,     \* a goroutine that closes clients
  o1, o2    \* goroutines that start and stop the refresher

A(i, acts, h, kind, runOn) ==
  [ident |-> i, provides |-> acts, addr |-> h, kind |-> kind, runOn |-> runOn]

(* Two providers of one action, which spell it differently.                 *)
Two == <<A("i", {"a"}, "h1", "good", FALSE), A("j", {"A", "b"}, "h2", "good", FALSE)>>
(* Only one is left, and somebody else claims its ident.                    *)
Claimed == <<A("i", {"a"}, "h1", "good", FALSE), A("i", {"a"}, "h3", "invalid", FALSE)>>
(* One announces an action twice, and both under way to the disk.           *)
Half == <<A("i", {"a", "A"}, "h1", "good", FALSE), A("j", {"a"}, "h2", "good", TRUE),
          A("i", {"b"}, "h1", "good", TRUE), A("j", {"b"}, "h2", "cut", TRUE)>>
(* Unsigned announcements and ones that run into the next.                  *)
RunOn == <<A("j", {"a"}, "h3", "nosig", TRUE), A("i", {"a"}, "h1", "good", TRUE),
           A("j", {"a"}, "h2", "good", TRUE), A("i", {"b"}, "h2", "good", FALSE),
           A("j", {"b"}, "h2", "nocert", TRUE), A("i", {"a"}, "h3", "good", FALSE)>>
(* One in the middle cannot be parsed, is blank, or lacks its empty line.   *)
Broken(kind) == <<A("j", {"a"}, "h2", "good", FALSE), A("j", {"b"}, "h2", kind, FALSE),
                  A("i", {"a"}, "h1", "good", FALSE)>>

(* One of two services provides the action; then an announcement that does  *)
(* not verify gives it to the other.                                        *)
Mixed == <<A("j", {"b"}, "h2", "good", FALSE), A("i", {"a"}, "h1", "good", FALSE)>>
Forged == <<A("j", {"a"}, "h2", "invalid", FALSE), A("i", {"b"}, "h1", "good", FALSE)>>

MCFiles == {Two, Claimed, Mixed, Forged, Half, RunOn, Broken("malformed"), Broken("blank"), Broken("nogap")}
MCWanted == [r \in Requests |-> "a"]
MCToLower == [n \in Names |-> IF n = "A" THEN "a" ELSE n]

(* A refresher that runs, with every kind of file; one that two goroutines  *)
(* start and stop; two requests that race for one proxy and refresh the     *)
(* cache themselves; one that chooses between two services, and finds other *)
(* announcements on the way; one whose action moves to another service,     *)
(* while verification is switched on and off; and one that is overtaken by a *)
(* running refresher, with two goroutines that close clients.               *)
Setup(reactive, files, callers, closers, owners, stops, switches) ==
  [reactive |-> reactive, files |-> files, callers |-> callers, closers |-> closers,
   owners |-> owners, stops |-> stops, switches |-> switches]

MCSetups ==
  {Setup(FALSE, Files, {}, {}, {o1}, FALSE, TRUE),
   Setup(FALSE, {Two}, {}, {}, {o1, o2}, TRUE, FALSE),
   Setup(TRUE, {Claimed}, {r1, r2}, {"split"}, {}, FALSE, FALSE),
   Setup(TRUE, {Two, Claimed}, {r1}, {"split"}, {}, FALSE, FALSE),
   Setup(TRUE, {Mixed, Forged}, {r1}, {"split"}, {}, FALSE, TRUE),
   Setup(FALSE, {Claimed}, {r1}, Closers, {o1}, FALSE, FALSE)}
=============================================================================
