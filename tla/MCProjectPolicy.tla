--------------------------- MODULE MCProjectPolicy ---------------------------
EXTENDS ProjectPolicy

CONSTANTS ra, rb, push, dryPush, docker, net, metadata, ann, ben, viv

Modes == [r \in {ra, rb} |-> IF r = ra THEN {"request_approval"} ELSE {"auto_review", "full_access"}]
\* Run rb denies the command that Run ra may have approved for the project.
DeniedInB == [r \in {ra, rb} |-> IF r = rb THEN {push} ELSE {}]
Turns == [r \in {ra, rb} |-> IF r = ra THEN 2 ELSE 1]
Roles == [u \in {ann, ben, viv} |-> IF u = ann THEN "admin" ELSE IF u = ben THEN "developer" ELSE "viewer"]
\* An endpoint has a subdomain no mode may reach; a command can be edited into one
\* that only reports, or into one that reaches the container runtime.
Narrowed == {<<dryPush, push>>, <<metadata, net>>, <<docker, push>>}
=============================================================================
