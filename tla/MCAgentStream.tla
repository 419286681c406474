--------------------------- MODULE MCAgentStream ---------------------------
(* Bytes have two values, so that both bytes of a size count. The client   *)
(* sends a login and two packages of any kind, another connection on the   *)
(* same chain one package.                                                 *)
EXTENDS AgentStream

MCFds == {1, 2}
MChash == [fd \in MCFds |-> 0]
MCKind(body) ==
  CASE body = <<1>> -> "login" [] body = <<0, 1>> -> "room"
    [] body = <<0, 0, 1>> -> "response" [] OTHER -> "garbled"
MCBodies == {<<1>>, <<0, 1>>, <<0, 0, 1>>, <<>>}
MCStreams == [fd \in MCFds |->
  IF fd = 1 THEN {s \in [1..3 -> MCBodies] : s[1] = <<1>>}
            ELSE {<<<<1>>>>}]
=============================================================================
