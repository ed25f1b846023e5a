---------------------------- MODULE MCNodeWatch ----------------------------
(* Two nodes, so that one's reports can hide or postpone the other's.        *)
EXTENDS NodeWatch

CONSTANTS a, b

MCDevices == {a, b}

\* Two nodes under the loop; one under the loop, forced sweeps and Test; and one that
\* transfers go to, which df has to notice.
MCBudgets == {
  [fleet |-> {a, b}, flaps |-> 1, rescans |-> 0, edits |-> 0, tests |-> 0, submits |-> 1,
   transfers |-> 0, dfs |-> 0],
  [fleet |-> {b}, flaps |-> 2, rescans |-> 1, edits |-> 0, tests |-> 1, submits |-> 1,
   transfers |-> 0, dfs |-> 0],
  [fleet |-> {a}, flaps |-> 0, rescans |-> 0, edits |-> 1, tests |-> 0, submits |-> 0,
   transfers |-> 2, dfs |-> 3],
  [fleet |-> {a}, flaps |-> 1, rescans |-> 0, edits |-> 0, tests |-> 1, submits |-> 0,
   transfers |-> 0, dfs |-> 1]}

\* A forced sweep beside the loop's; a Test while a transfer ends.
MCForced == {[fleet |-> {a}, flaps |-> 2, rescans |-> 1, edits |-> 0, tests |-> 0,
              submits |-> 1, transfers |-> 0, dfs |-> 0]}
MCTested == {[fleet |-> {a}, flaps |-> 0, rescans |-> 0, edits |-> 0, tests |-> 1,
              submits |-> 0, transfers |-> 1, dfs |-> 2]}
=============================================================================
