------------------------------ MODULE MCWatch ------------------------------
(* An instance of Watch for TLC.                                              *)
EXTENDS Watch

Step(kind, host, uses, cleanup) ==
    [kind |-> kind, host |-> host, uses |-> uses, places |-> 1, renders |-> TRUE, valid |-> TRUE,
     follows |-> FALSE, cleanup |-> cleanup]

\* A look without a credential, which follows redirects, a request with one in its body
\* and in a header, then a check of the answer.
Journey1 == [engine |-> "http", steps |-> <<[Step("http", "api", "none", FALSE) EXCEPT !.follows = TRUE],
                                            [Step("http", "pay", "key", FALSE) EXCEPT !.places = 2],
                                            Step("assert", "", "none", FALSE)>>]
\* A page that is given the credential, marked to clean up.
Journey2 == [engine |-> "browser", steps |-> <<Step("page", "api", "key", TRUE)>>]
\* A cleaning up that is declared first, a wait, a check with nothing to read, and one
\* that cannot be rendered and is not valid.
Journey3 == [engine |-> "http", steps |-> <<Step("http", "api", "none", TRUE),
                                            Step("sleep", "", "none", FALSE),
                                            Step("assert", "", "none", FALSE),
                                            [Step("assert", "", "none", FALSE) EXCEPT
                                                !.renders = FALSE, !.valid = FALSE]>>]

One == [m \in {"m1"} |-> "c1"]
Seed == [m \in {"m1"} |-> Journey1]
SomeDefinitions == {Journey2, Journey3}
SomeCovers == [b \in {"api", ".ex"} |-> IF b = "api" THEN {"api"} ELSE {"api", "pay"}]
SomeRequests == {[hosts |-> {}, callback |-> "hook", renderer |-> TRUE, pack |-> TRUE]}
=============================================================================
