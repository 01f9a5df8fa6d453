----------------------- MODULE MCWorkbenchPublication -----------------------
EXTENDS WorkbenchPublication

TwoContents == {1, 2}

\* What a request may hold can be renamed throughout a behaviour: it is enough
\* to begin with one content.
MCInit == Init /\ records["S"].content = 1

MCSpec == MCInit /\ [][Next]_vars /\ Fairness
=============================================================================
