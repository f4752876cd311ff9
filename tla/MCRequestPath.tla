--------------------------- MODULE MCRequestPath ----------------------------
EXTENDS RequestPath

Plain ==
    [options |-> FALSE, body |-> 0, declared |-> TRUE, text |-> TRUE, level |-> "info",
     admitted |-> TRUE, secured |-> TRUE, token |-> {[valid |-> TRUE, scopes |-> {"s"}]}]

CONSTANTS r1, r2

\* The first: one request for each answer of the chain, and bodies around both limits.
Every ==
    {[Plain EXCEPT !.options = TRUE],
     [Plain EXCEPT !.body = 3],
     [Plain EXCEPT !.admitted = FALSE],
     [Plain EXCEPT !.token = {}],
     [Plain EXCEPT !.token = {[valid |-> FALSE, scopes |-> {"s"}]}],
     [Plain EXCEPT !.token = {[valid |-> TRUE, scopes |-> {}]}],
     [Plain EXCEPT !.secured = FALSE, !.token = {}, !.level = "none"]}
    \cup {[Plain EXCEPT !.body = n, !.declared = FALSE] : n \in 1..3}

\* The second shares the pool of buffers with it, and the process.
MCInputs == [r \in {r1, r2} |-> IF r = r1 THEN Every ELSE {[Plain EXCEPT !.body = 1]}]

MCReplies == {<<>>, <<0, 0>>, <<103, 502>>, <<103, 0>>}
=============================================================================
