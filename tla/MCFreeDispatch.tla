---------------------------- MODULE MCFreeDispatch ----------------------------
(* Instances of FreeDispatch for TLC.                                      *)
EXTENDS FreeDispatch

CONSTANTS a, b, c

InOrder    == <<a, b, c>>
NoThrottle == [t \in Tasks |-> 0]

Play(pinned, throttle, metas, roles) ==
  [pinned |-> pinned, throttle |-> throttle, metas |-> metas, roles |-> roles]

(* Plain, throttled, with a meta task or a role, on both strategies.       *)
AllPlays == {Play(FALSE, 0, {1}, {2}), Play(FALSE, 1, {}, {}), Play(TRUE, 0, {}, {})}

ThrottledPlay    == {Play(FALSE, 1, {}, {})}
PinnedMetaPlay   == {Play(TRUE, 0, {2}, {})}

=============================================================================
