----------------------------- MODULE MCEventBus -----------------------------
(* Two jobs and one tab, whose queue is full after three events. Tabs share  *)
(* nothing but the jobs: what one shows does not depend on another.          *)
EXTENDS EventBus

CONSTANTS j1, j2, t1

MCJobs == {j1, j2}
MCTabs == {t1}
=============================================================================
