--------------------------- MODULE MCWebhookIngest ---------------------------
(* Instances of WebhookIngest for TLC: ann's repository and one of the     *)
(* organization org, which share a commit; bob commits to org's.           *)
EXTENDS WebhookIngest, TLC

CONSTANTS r1, r2, c1, c2, c3, ann, bob, org, e1, e2

MCOwner == (r1 :> ann @@ r2 :> org)
MCEmail == [c \in Commits |-> IF c = c1 THEN e1 ELSE e2]
MCMails == (ann :> {e1} @@ bob :> {e2} @@ org :> {})

MCPush(r, slug, hidden, commits) ==
  [repo |-> r, slug |-> slug, private |-> hidden, commits |-> commits]

\* r1, which is private, and the organization's copy push the same commit.
MCShared == {MCPush(r1, "ann/x", TRUE, {c2}), MCPush(r2, "org/x", FALSE, {c2, c3})}
\* r2 takes the name r1 had; r1 pushes again under a new one, now private.
MCRenamed == {MCPush(r1, "ann/x", FALSE, {c1, c2}), MCPush(r2, "ann/x", FALSE, {c2}),
              MCPush(r1, "ann/y", TRUE, {c1})}

=============================================================================
