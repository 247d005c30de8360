---------------------------- MODULE MCKeyCapture ----------------------------
(* Two logins.  The list of the second one has a key of the first again, and *)
(* a new one; one file passes the test of both.                              *)
EXTENDS KeyCapture

M(c, s, u, r, ks) == [conn |-> c, side |-> s, under |-> u, reply |-> r, keys |-> ks]

MCStreams ==
    <<[s \in Sides |->
          IF s = "client"
          THEN <<M(1, s, "dispatch", FALSE, {}), M(1, s, "session", FALSE, {})>>
          ELSE <<M(1, s, "dispatch", TRUE, {}), M(1, s, "session", FALSE, {"a", "c"})>>],
      [s \in Sides |->
          IF s = "client"
          THEN <<>>
          ELSE <<M(2, s, "dispatch", TRUE, {}), M(2, s, "session", FALSE, {"a", "b"})>>]>>

MCKeys == {"a", "b", "c"}
MCAtOnce == {"c"}
MCNumbers == [k \in MCKeys |-> CASE k = "a" -> 1 [] k = "b" -> 2 [] k = "c" -> 3]
MCOpens == <<{"a", "b"}, {"b"}>>
=============================================================================
