--------------------------- MODULE ArchitectGraph ---------------------------
(***************************************************************************)
(* One run of the architect-agent's LangGraph: intent_node, then the two   *)
(* generate-and-review loops (solution, plan) and reply_node.  A step is   *)
(* one node: it reads the ArchitectState, may call the LLM, and returns    *)
(* the keys it writes; the conditional edges choose the next node.         *)
(*                                                                         *)
(* A generated artifact is its generation number (0: none yet).  A review  *)
(* comment is a pair of what it is about and a member of Remarks, so that  *)
(* a comment read later still says which generation it criticised.         *)
(***************************************************************************)
EXTENDS Naturals

CONSTANTS
  Remarks,    \* what a reviewer may object to
  HasPlan,    \* raw_history holds a plan tagged reply_node
  Limit       \* LangGraph's recursion limit: nodes one run may execute

ASSUME GraphAssumption ==
  /\ HasPlan \in BOOLEAN
  /\ Limit \in Nat \ {0}

VARIABLES
  node,             \* the node that runs next, or how the run ended
  user_intent,
  prior_solution,   \* whether the state carries the prior plan's solution
  solution, solution_approved, solution_review_comments,
  tickets, tickets_approved, ticket_review_comments,
  final_reply,      \* {} or the singleton of the reply
  steps,            \* nodes executed so far
  prompt,           \* history: what the last generator was asked
  raised,           \* history: every comment a reviewer made
  passed            \* history: the artifacts a reviewer approved

solutionVars == <<solution, solution_approved, solution_review_comments>>
ticketVars   == <<tickets, tickets_approved, ticket_review_comments>>
graphVars == <<node, user_intent, prior_solution, solutionVars, ticketVars,
               final_reply, steps, prompt, raised, passed>>

IntentNames == {"undefined", "plan", "refine", "accept"}
Running     == {"intent_node", "solution_node", "solution_review_node",
                "plan_node", "plan_review_node", "reply_node"}
LLMNodes    == Running \ {"reply_node"}
NodeNames   == Running \cup {"end", "failed"}

(* A solution, or tickets together with the solution they were made from.  *)
Artifacts == [kind : {"solution"}, gen : Nat]
               \cup [kind : {"tickets"}, gen : Nat, from : Nat]
Comments  == [on : {"solution", "tickets"}, gen : Nat, remark : Remarks]
Prompts   == [kind : {"none", "new", "refine", "revise"},
              on : {"solution", "tickets"}, gen : Nat,
              prior : BOOLEAN, comments : SUBSET Comments]

Solution(n)   == [kind |-> "solution", gen |-> n]
Tickets(n, s) == [kind |-> "tickets", gen |-> n, from |-> s]
NoPrompt == [kind |-> "none", on |-> "solution", gen |-> 0, prior |-> FALSE,
             comments |-> {}]

GraphInit ==
  /\ node = "intent_node" /\ user_intent = "none" /\ prior_solution = FALSE
  /\ solution = 0 /\ solution_approved = FALSE /\ solution_review_comments = {}
  /\ tickets = Tickets(0, 0) /\ tickets_approved = FALSE
  /\ ticket_review_comments = {}
  /\ final_reply = {} /\ steps = 0 /\ prompt = NoPrompt /\ raised = {}
  /\ passed = {}

(* LangGraph runs the node n while the recursion limit is not reached.     *)
Runs(n) ==
  /\ node = n /\ steps < Limit
  /\ steps' = steps + 1

(* Mutant: an undefined request is planned.                                *)
IntentNodePlansAll ==
  /\ Runs("intent_node")
  /\ user_intent' \in IntentNames
  /\ prior_solution' = (user_intent' = "refine" /\ HasPlan)
  /\ node' = IF user_intent' # "accept" THEN "solution_node" ELSE "end"
  /\ UNCHANGED <<solutionVars, ticketVars, final_reply, prompt, raised, passed>>

(* The LLM classifies the message; for refine the latest plan of the       *)
(* history becomes prior_solution.                                         *)
IntentNode ==
  /\ Runs("intent_node")
  /\ user_intent' \in IntentNames
  /\ prior_solution' = (user_intent' = "refine" /\ HasPlan)
  /\ node' = IF user_intent' \in {"plan", "refine"} THEN "solution_node"
                                                    ELSE "end"
  /\ UNCHANGED <<solutionVars, ticketVars, final_reply, prompt, raised, passed>>

(* _build_prompt asks the state for solution_review_approved, a key that   *)
(* no node writes: the default, False, is what it always reads.            *)
SolutionReviewApproved == FALSE

SolutionPrompt ==
  IF ~SolutionReviewApproved
    THEN [kind |-> "revise", on |-> "solution", gen |-> solution,
          prior |-> FALSE, comments |-> solution_review_comments]
    ELSE [kind |-> IF prior_solution THEN "refine" ELSE "new",
          on |-> "solution", gen |-> 0, prior |-> prior_solution,
          comments |-> {}]

SolutionNode ==
  /\ Runs("solution_node")
  /\ prompt' = SolutionPrompt
  /\ solution' = solution + 1 /\ solution_approved' = FALSE
  /\ node' = "solution_review_node"
  /\ UNCHANGED <<user_intent, prior_solution, solution_review_comments,
                 ticketVars, final_reply, raised, passed>>

(* The remarks of one review, as comments on what it reviewed.             *)
About(kind, gen, remarks) ==
  {[on |-> kind, gen |-> gen, remark |-> m] : m \in remarks}

(* Mutant: comments pile up, as with an appending state key.               *)
CommentsPileUp(approved, remarks) ==
  solution_review_comments \cup About("solution", solution, remarks)

(* The comments a review of the solution leaves in the state.              *)
SolutionComments(approved, remarks) ==
  IF approved THEN {} ELSE About("solution", solution, remarks)

(* The reviewer sees the current solution; its comments are kept only when *)
(* it rejects, and may be empty then (the schema's default).               *)
SolutionReviewNode ==
  /\ Runs("solution_review_node")
  /\ \E approved \in BOOLEAN, remarks \in SUBSET Remarks :
       /\ solution_approved' = approved
       /\ solution_review_comments' = SolutionComments(approved, remarks)
       /\ raised' = raised \cup About("solution", solution, remarks)
       /\ passed' = passed \cup (IF approved THEN {Solution(solution)} ELSE {})
       /\ node' = IF approved THEN "plan_node" ELSE "solution_node"
  /\ UNCHANGED <<user_intent, prior_solution, solution, ticketVars, final_reply,
                 prompt>>

(* The prompt of the tickets carries the solution and the comments, never  *)
(* the tickets they are about.                                             *)
PlanPrompt ==
  IF ~tickets_approved
    THEN [kind |-> "revise", on |-> "tickets", gen |-> tickets.gen,
          prior |-> FALSE, comments |-> ticket_review_comments]
    ELSE [kind |-> "new", on |-> "tickets", gen |-> 0, prior |-> FALSE,
          comments |-> {}]

PlanNode ==
  /\ Runs("plan_node")
  /\ prompt' = PlanPrompt
  /\ tickets' = Tickets(tickets.gen + 1, solution) /\ tickets_approved' = FALSE
  /\ node' = "plan_review_node"
  /\ UNCHANGED <<user_intent, prior_solution, solutionVars,
                 ticket_review_comments, final_reply, raised, passed>>

(* Mutant: a review of the tickets never sends them back.                  *)
AlwaysReply(approved) == "reply_node"

(* Mutant: the route names a node the graph does not have.                 *)
MisnamedReply(approved) == IF approved THEN "reply" ELSE "plan_node"

(* The node after a review of the tickets.                                 *)
RoutePlanReview(approved) == IF approved THEN "reply_node" ELSE "plan_node"

PlanReviewNode ==
  /\ Runs("plan_review_node")
  /\ \E approved \in BOOLEAN, remarks \in SUBSET Remarks :
       /\ tickets_approved' = approved
       /\ ticket_review_comments' =
            IF approved THEN {} ELSE About("tickets", tickets.gen, remarks)
       /\ raised' = raised \cup About("tickets", tickets.gen, remarks)
       /\ passed' = passed \cup (IF approved THEN {tickets} ELSE {})
       /\ node' = RoutePlanReview(approved)
  /\ UNCHANGED <<user_intent, prior_solution, solutionVars, tickets,
                 final_reply, prompt>>

ReplyNode ==
  /\ Runs("reply_node")
  /\ final_reply' = {[solution |-> Solution(solution), tickets |-> tickets]}
  /\ node' = "end"
  /\ UNCHANGED <<user_intent, prior_solution, solutionVars, ticketVars, prompt,
                 raised, passed>>

(* The run raises: an LLM call fails or its answer does not parse.         *)
NodeFails ==
  /\ node \in LLMNodes
  /\ node' = "failed"
  /\ UNCHANGED <<user_intent, prior_solution, solutionVars, ticketVars,
                 final_reply, steps, prompt, raised, passed>>

(* Mutant: nothing stops a run at the limit.                               *)
NoStepLimit ==
  /\ node \in Running /\ steps = Limit
  /\ UNCHANGED graphVars

(* astream raises GraphRecursionError, with nodes still to run; execute    *)
(* catches it.                                                             *)
StepLimit ==
  /\ node \in Running /\ steps = Limit
  /\ node' = "failed"
  /\ UNCHANGED <<user_intent, prior_solution, solutionVars, ticketVars,
                 final_reply, steps, prompt, raised, passed>>

GraphStep ==
  \/ IntentNode \/ SolutionNode \/ SolutionReviewNode
  \/ PlanNode \/ PlanReviewNode \/ ReplyNode
  \/ StepLimit

GraphNext == GraphStep \/ NodeFails

GraphSpec == GraphInit /\ [][GraphNext]_graphVars

(* The task that iterates astream keeps going; the reviewers owe nothing.  *)
GraphFairSpec == GraphSpec /\ WF_graphVars(GraphStep)
----------------------------------------------------------------------------
(* Types of the ArchitectState and of what the run records.                *)
GraphTypeOK ==
  /\ node \in NodeNames
  /\ user_intent \in IntentNames \cup {"none"}
  /\ prior_solution \in BOOLEAN
  /\ solution \in Nat /\ solution_approved \in BOOLEAN
  /\ solution_review_comments \subseteq Comments
  /\ tickets \in [kind : {"tickets"}, gen : Nat, from : Nat]
  /\ tickets_approved \in BOOLEAN
  /\ ticket_review_comments \subseteq Comments
  /\ final_reply \subseteq [solution : Artifacts, tickets : Artifacts]
  /\ steps \in 0 .. Limit
  /\ prompt \in Prompts
  /\ raised \subseteq Comments
  /\ passed \subseteq Artifacts

(* A reply holds only artifacts a reviewer approved, and its tickets were  *)
(* made from the very solution it presents, however often either loop ran. *)
OnlyApprovedReplies ==
  \A r \in final_reply :
    /\ r.solution \in passed /\ r.tickets \in passed
    /\ r.tickets.from = r.solution.gen

(* A generator that is asked to revise is given what the reviewer of that  *)
(* very generation remarked: all of it, nothing about an older one and     *)
(* nothing about the other artifact.  That is nothing at all for the first *)
(* generation, which is worded as a revision too, and when a reviewer      *)
(* rejects without a remark.                                               *)
Remarked(kind, gen) == {m \in raised : m.on = kind /\ m.gen = gen}
CommentsAreCurrent == prompt.comments = Remarked(prompt.on, prompt.gen)

(* Whatever the reviewers answer, the run ends.                            *)
RunEnds == <>(node \in {"end", "failed"})

(* A run of the graph is the stream of updates that ChatService consumes.  *)
Stream == INSTANCE UpdateStream
  WITH MaxUpdates <- Limit,
       pc <- IF node = "intent_node" THEN "intent"
             ELSE IF node \in {"end", "failed"} THEN "settle" ELSE "work",
       intent <- user_intent,
       updates <- IF steps = 0 THEN 0 ELSE steps - 1,
       error <- (node = "failed")
IsUpdateStream == Stream!Spec
=============================================================================
