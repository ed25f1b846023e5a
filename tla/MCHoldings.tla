----------------------------- MODULE MCHoldings -----------------------------
(* Two books, so that a walk, a listing and a transfer can each be between    *)
(* one and the other; they are interchangeable.                               *)
EXTENDS Holdings, TLC

CONSTANTS a, b

MCPaths == {a, b}
\* Three situations: a pull among walks of the library; transfers, scans and people
\* on the device; coverage pages among writes and publications.
MCBudgets == {
  [roles |-> {"upstream"}, moves |-> 1, walks |-> 2, transfers |-> 1, scans |-> 0,
   byHand |-> 0, pages |-> 0],
  [roles |-> {"node", "upstream"}, moves |-> 0, walks |-> 0, transfers |-> 1, scans |-> 1,
   byHand |-> 1, pages |-> 0],
  [roles |-> {"node"}, moves |-> 0, walks |-> 0, transfers |-> 2, scans |-> 1,
   byHand |-> 0, pages |-> 0],
  [roles |-> {"node"}, moves |-> 0, walks |-> 1, transfers |-> 0, scans |-> 1,
   byHand |-> 0, pages |-> 2],
  [roles |-> {"node"}, moves |-> 0, walks |-> 0, transfers |-> 1, scans |-> 0,
   byHand |-> 0, pages |-> 2]}

\* Pushes while one book may leave; one beside a scan; one while the library moves.
\* MCFresh: the index is up to date whenever a transfer runs.
MCLeaving == {[roles |-> {"node"}, moves |-> 1, walks |-> 1, transfers |-> 2, scans |-> 0,
               byHand |-> 0, pages |-> 0]}
MCFresh == job.at = "running" => index = library
MCScanned == {[roles |-> {"node"}, moves |-> 0, walks |-> 0, transfers |-> 1, scans |-> 1,
               byHand |-> 0, pages |-> 0]}
MCMoving == {[roles |-> {"node"}, moves |-> 1, walks |-> 1, transfers |-> 1, scans |-> 0,
              byHand |-> 0, pages |-> 0]}

MCSymmetry == Permutations(MCPaths) \cup Permutations(Threads)
=============================================================================
