---------------------------- MODULE MCAgentProtocol ----------------------------
(* An instance of AgentProtocol for TLC.  Bodies end below, at and above the *)
(* width of their length; chunks end at and above the longest payload.       *)
EXTENDS AgentProtocol

Text(n) == [i \in 1..n |-> i % Base]

MCRequests ==
  [method : {<<1>>}, uri : {<<2, 3>>},
   headers : {<<>>, <<[name |-> <<4>>, value |-> <<5, 5>>], [name |-> <<3>>, value |-> <<>>]>>},
   body : {Text(n) : n \in {Base^2 - 1, Base^2, Base^2 + 1}}]

MCAnswers ==
  [throws : {TRUE}, chunks : {<<Text(1)>>}]
    \cup [throws : {FALSE},
          chunks : {<<>>, <<<<>>, Text(2)>>, <<Text(MaxPayload - 1)>>, <<Text(MaxPayload), Text(1)>>}]
=============================================================================
