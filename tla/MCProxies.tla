------------------------------ MODULE MCProxies ------------------------------
(* Values for ProxyProperties: two objects, the first behind a proxy, and one *)
(* key. The descriptors are the kinds that meet different checks.             *)
EXTENDS ProxyProperties

CONSTANTS o1, o2, proxy, getter, key, zero, minusZero, absent

bare == [value |-> absent, get |-> absent, set |-> absent,
         writable |-> absent, enumerable |-> absent, configurable |-> absent]
SomeDefinitions == {
  [bare EXCEPT !.value = minusZero, !.writable = FALSE],
  [bare EXCEPT !.value = zero, !.writable = TRUE],
  [bare EXCEPT !.value = zero, !.writable = TRUE, !.enumerable = TRUE, !.configurable = TRUE],
  [bare EXCEPT !.writable = FALSE, !.configurable = FALSE],
  [bare EXCEPT !.get = getter],
  [bare EXCEPT !.set = getter, !.configurable = TRUE]}
SomeReports == SomeDefinitions \cup {[bare EXCEPT !.value = zero], [bare EXCEPT !.enumerable = TRUE]}
Targets == [x \in {proxy} |-> o1]
=============================================================================
