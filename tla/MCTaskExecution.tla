-------------------------- MODULE MCTaskExecution ---------------------------
EXTENDS TaskExecution

\* The accounts in the order of their directories.
MCAccounts == <<"bonus", "luna">>

\* Limits small enough to be met, one of them the limit of GLM.
MCLimit == [k \in {"sol", "luna", "agy", "ds-flash", "glm-flash", "ds-pro"} |->
                IF k \in {"sol", "luna"} THEN 2 ELSE 1]

\* Through the sidecar and with commands, with a key for GLM and without, and
\* the options that keep AGY or Luna out.
MCModes == {[sidecar |-> TRUE, strict |-> FALSE, flash |-> FALSE, glm |-> TRUE],
            [sidecar |-> FALSE, strict |-> FALSE, flash |-> FALSE, glm |-> FALSE],
            [sidecar |-> TRUE, strict |-> TRUE, flash |-> TRUE, glm |-> FALSE]}
=============================================================================
