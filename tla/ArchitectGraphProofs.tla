------------------------ MODULE ArchitectGraphProofs ------------------------
(***************************************************************************)
(* One run of the graph, for every set of remarks and every step limit:    *)
(* the types, what a reply may hold, which comments a generator is given,  *)
(* and that the run is the stream of updates ChatService consumes.         *)
(***************************************************************************)
EXTENDS ArchitectGraph, TLAPS

(* The tickets of one generation and its solution are an artifact, and a   *)
(* review comment is a comment, whatever the generation.                   *)
LEMMA ArtifactTypes ==
  ASSUME NEW n \in Nat, NEW s \in Nat
  PROVE  /\ Solution(n) \in Artifacts
         /\ Tickets(n, s) \in [kind : {"tickets"}, gen : Nat, from : Nat]
         /\ \A k \in {"solution", "tickets"}, remarks \in SUBSET Remarks :
              About(k, n, remarks) \subseteq Comments
BY DEF Solution, Tickets, Artifacts, Comments, About

(* A generator's prompt is well-formed in a well-formed state.             *)
LEMMA PromptTypes ==
  ASSUME GraphTypeOK
  PROVE  SolutionPrompt \in Prompts /\ PlanPrompt \in Prompts
BY DEF GraphTypeOK, SolutionPrompt, PlanPrompt, SolutionReviewApproved, Prompts

(* Every step of a run keeps the types.                                    *)
LEMMA GraphTypeStep ==
  ASSUME GraphTypeOK, [GraphNext]_graphVars
  PROVE  GraphTypeOK'
<1> USE DEF solutionVars, ticketVars
<1>n. ASSUME NEW n, Runs(n)
      PROVE  steps' \in 0 .. Limit
  BY <1>n, GraphAssumption DEF Runs, GraphTypeOK
<1>1. CASE IntentNode
  BY <1>1, <1>n DEF IntentNode, GraphTypeOK, NodeNames, Running
<1>2. CASE SolutionNode
  <2>1. solution' \in Nat /\ prompt' \in Prompts
    BY <1>2, PromptTypes DEF SolutionNode, GraphTypeOK
  <2> QED
    BY <1>2, <1>n, <2>1 DEF SolutionNode, GraphTypeOK, NodeNames, Running
<1>3. CASE SolutionReviewNode
  <2>1. /\ solution_review_comments' \subseteq Comments
        /\ raised' \subseteq Comments /\ passed' \subseteq Artifacts
    BY <1>3, ArtifactTypes DEF SolutionReviewNode, SolutionComments, GraphTypeOK
  <2>2. node' \in NodeNames /\ solution_approved' \in BOOLEAN
    BY <1>3 DEF SolutionReviewNode, NodeNames, Running
  <2> QED
    BY <1>3, <1>n, <2>1, <2>2 DEF SolutionReviewNode, GraphTypeOK
<1>4. CASE PlanNode
  <2>1. tickets' \in [kind : {"tickets"}, gen : Nat, from : Nat]
    <3>1. tickets.gen + 1 \in Nat /\ solution \in Nat
      BY DEF GraphTypeOK
    <3> QED BY <1>4, <3>1, ArtifactTypes DEF PlanNode
  <2>2. prompt' \in Prompts
    BY <1>4, PromptTypes DEF PlanNode
  <2> QED
    BY <1>4, <1>n, <2>1, <2>2 DEF PlanNode, GraphTypeOK, NodeNames, Running
<1>5. CASE PlanReviewNode
  <2>1. tickets.gen \in Nat /\ tickets \in Artifacts
    BY DEF GraphTypeOK, Artifacts
  <2>2. /\ ticket_review_comments' \subseteq Comments
        /\ raised' \subseteq Comments /\ passed' \subseteq Artifacts
    BY <1>5, <2>1, ArtifactTypes DEF PlanReviewNode, GraphTypeOK
  <2>3. node' \in NodeNames /\ tickets_approved' \in BOOLEAN
    BY <1>5 DEF PlanReviewNode, RoutePlanReview, NodeNames, Running
  <2> QED
    BY <1>5, <1>n, <2>2, <2>3 DEF PlanReviewNode, GraphTypeOK
<1>6. CASE ReplyNode
  <2>1. Solution(solution) \in Artifacts /\ tickets \in Artifacts
    BY ArtifactTypes DEF GraphTypeOK, Artifacts
  <2>2. final_reply' \subseteq [solution : Artifacts, tickets : Artifacts]
    BY <1>6, <2>1 DEF ReplyNode
  <2> QED
    BY <1>6, <1>n, <2>2 DEF ReplyNode, GraphTypeOK, NodeNames
<1>7. CASE NodeFails \/ StepLimit
  BY <1>7 DEF NodeFails, StepLimit, GraphTypeOK, NodeNames
<1>8. CASE UNCHANGED graphVars
  BY <1>8 DEF graphVars, GraphTypeOK
<1> QED
  BY <1>1, <1>2, <1>3, <1>4, <1>5, <1>6, <1>7, <1>8 DEF GraphNext, GraphStep

(* The state of a run and its records keep their types.                    *)
THEOREM GraphTypeCorrect == GraphSpec => []GraphTypeOK
<1>1. NoPrompt \in Prompts
  BY DEF NoPrompt, Prompts
<1>2. Tickets(0, 0) \in [kind : {"tickets"}, gen : Nat, from : Nat]
  BY ArtifactTypes
<1>3. GraphInit => GraphTypeOK
  <2> SUFFICES ASSUME GraphInit PROVE GraphTypeOK
    OBVIOUS
  <2>1. steps \in 0 .. Limit
    BY GraphAssumption DEF GraphInit
  <2>2. node \in NodeNames
    BY DEF GraphInit, NodeNames, Running
  <2>3. /\ prior_solution \in BOOLEAN /\ solution_approved \in BOOLEAN
        /\ tickets_approved \in BOOLEAN
    BY DEF GraphInit
  <2>4. prompt \in Prompts /\ tickets \in [kind : {"tickets"}, gen : Nat, from : Nat]
    BY <1>1, <1>2 DEF GraphInit
  <2>5. /\ user_intent \in IntentNames \cup {"none"} /\ solution \in Nat
        /\ final_reply = {} /\ passed = {} /\ raised = {}
        /\ solution_review_comments = {} /\ ticket_review_comments = {}
    BY DEF GraphInit
  <2> QED BY <2>1, <2>2, <2>3, <2>4, <2>5 DEF GraphTypeOK
<1> QED BY <1>3, GraphTypeStep, PTL DEF GraphSpec
----------------------------------------------------------------------------
(* What makes the two properties inductive: how far the run has come tells *)
(* what was approved; nothing is remarked on a generation before its       *)
(* review, and afterwards the state holds what was, until that artifact is *)
(* approved or out for review again, when no generator reads it.           *)
ApprovedSoFar ==
  /\ node \in {"plan_node", "plan_review_node", "reply_node"} =>
       Solution(solution) \in passed
  /\ node \in {"plan_review_node", "reply_node"} => tickets.from = solution
  /\ node = "reply_node" => tickets \in passed

CommentsFollow ==
  /\ \A m \in raised : m.gen <= IF m.on = "solution" THEN solution ELSE tickets.gen
  /\ node \in {"intent_node", "solution_node"} =>
       solution_review_comments = Remarked("solution", solution)
  /\ node \in {"intent_node", "solution_node", "solution_review_node", "plan_node"} =>
       /\ ticket_review_comments = Remarked("tickets", tickets.gen)
       /\ ~tickets_approved
  /\ node = "solution_review_node" =>
       /\ Remarked("solution", solution) = {}
       /\ prompt.on = "solution" => prompt.gen # solution
  /\ node = "plan_review_node" =>
       /\ Remarked("tickets", tickets.gen) = {}
       /\ prompt.on = "tickets" => prompt.gen # tickets.gen

GraphInv ==
  /\ ApprovedSoFar /\ OnlyApprovedReplies
  /\ CommentsFollow /\ CommentsAreCurrent

(* Every step keeps what is known to be approved, and a reply is built     *)
(* from it.                                                                *)
LEMMA ApprovedStep ==
  ASSUME GraphTypeOK, ApprovedSoFar, OnlyApprovedReplies, [GraphNext]_graphVars
  PROVE  ApprovedSoFar' /\ OnlyApprovedReplies'
<1> USE DEF solutionVars, ticketVars, ApprovedSoFar, OnlyApprovedReplies, Runs
<1>1. CASE IntentNode
  BY <1>1 DEF IntentNode
<1>2. CASE SolutionNode
  BY <1>2 DEF SolutionNode
<1>3. CASE SolutionReviewNode
  BY <1>3 DEF SolutionReviewNode, SolutionComments
<1>4. CASE PlanNode
  BY <1>4 DEF PlanNode, Tickets, Solution
<1>5. CASE PlanReviewNode
  BY <1>5 DEF PlanReviewNode, RoutePlanReview
<1>6. CASE ReplyNode
  BY <1>6 DEF ReplyNode, Solution
<1>7. CASE NodeFails \/ StepLimit
  BY <1>7 DEF NodeFails, StepLimit
<1>8. CASE UNCHANGED graphVars
  BY <1>8 DEF graphVars
<1> QED
  BY <1>1, <1>2, <1>3, <1>4, <1>5, <1>6, <1>7, <1>8 DEF GraphNext, GraphStep

(* The remarks on a generation change with its review only.                *)
LEMMA RemarksStep ==
  ASSUME NEW k \in {"solution", "tickets"}, NEW g \in Nat, NEW remarks,
         raised' = raised \cup About(k, g, remarks)
  PROVE  /\ Remarked(k, g)' = Remarked(k, g) \cup About(k, g, remarks)
         /\ \A i, n : ~(i = k /\ n = g) => Remarked(i, n)' = Remarked(i, n)
<1>1. \A m \in About(k, g, remarks) : m.on = k /\ m.gen = g
  BY DEF About
<1> QED BY <1>1 DEF Remarked

(* Every step keeps the comments in the state and in the last prompt those *)
(* of the generation they are about.                                       *)
LEMMA CommentsStep ==
  ASSUME GraphTypeOK, CommentsFollow, CommentsAreCurrent, [GraphNext]_graphVars
  PROVE  CommentsFollow' /\ CommentsAreCurrent'
<1> USE DEF solutionVars, ticketVars, Runs
<1>t. /\ solution \in Nat /\ tickets.gen \in Nat
      /\ \A m \in raised : m.on \in {"solution", "tickets"} /\ m.gen \in Nat
  BY DEF GraphTypeOK, Comments
<1>r. UNCHANGED raised => \A k, g : Remarked(k, g)' = Remarked(k, g)
  BY DEF Remarked
<1>1. CASE IntentNode
  BY <1>1, <1>r DEF IntentNode, CommentsFollow, CommentsAreCurrent
<1>2. CASE SolutionNode
  <2>0. PICK g \in Nat, h \in Nat : g = solution /\ h = tickets.gen
    BY <1>t
  <2>1. /\ prompt'.on = "solution" /\ prompt'.gen = g
        /\ prompt'.comments = Remarked("solution", g)
    BY <1>2, <2>0 DEF SolutionNode, SolutionPrompt, SolutionReviewApproved,
                      CommentsFollow
  <2>2. /\ solution' = g + 1 /\ tickets'.gen = h /\ node' = "solution_review_node"
        /\ UNCHANGED <<raised, ticketVars>> /\ node = "solution_node"
    BY <1>2, <2>0 DEF SolutionNode
  <2>3. \A m \in raised : m.gen <= IF m.on = "solution" THEN g ELSE h
    BY <2>0 DEF CommentsFollow
  <2>4. Remarked("solution", g + 1) = {}
    BY <1>t, <2>3 DEF Remarked
  <2>5. /\ Remarked("solution", solution)' = {}
        /\ prompt'.comments = Remarked(prompt.on, prompt.gen)'
    BY <2>1, <2>2, <2>4 DEF Remarked
  <2>6. \A m \in raised' : m.gen <= IF m.on = "solution" THEN solution' ELSE tickets'.gen
    BY <1>t, <2>2, <2>3
  <2>7. /\ ticket_review_comments' = Remarked("tickets", tickets.gen)'
        /\ ~tickets_approved'
    BY <2>2 DEF CommentsFollow, Remarked
  <2>8. g # g + 1
    OBVIOUS
  <2> QED BY <2>1, <2>2, <2>5, <2>6, <2>7, <2>8 DEF CommentsFollow, CommentsAreCurrent
<1>3. CASE SolutionReviewNode
  <2>0. PICK g \in Nat : g = solution
    BY <1>t
  <2>1. PICK approved \in BOOLEAN, remarks \in SUBSET Remarks :
          /\ solution_review_comments' = SolutionComments(approved, remarks)
          /\ raised' = raised \cup About("solution", g, remarks)
          /\ node' = IF approved THEN "plan_node" ELSE "solution_node"
    BY <1>3, <2>0 DEF SolutionReviewNode
  <2>2. node = "solution_review_node" /\ UNCHANGED <<solution, ticketVars, prompt>>
    BY <1>3 DEF SolutionReviewNode
  <2>3. /\ Remarked("solution", g)' = Remarked("solution", g) \cup About("solution", g, remarks)
        /\ \A i, n : ~(i = "solution" /\ n = g) => Remarked(i, n)' = Remarked(i, n)
    BY <2>1, RemarksStep
  <2>4. /\ Remarked("solution", solution)' = About("solution", g, remarks)
        /\ Remarked("tickets", tickets.gen)' = Remarked("tickets", tickets.gen)
    BY <2>0, <2>2, <2>3 DEF CommentsFollow, Remarked
  <2>5. \A m \in raised' : m.gen <= IF m.on = "solution" THEN solution' ELSE tickets'.gen
    BY <1>t, <2>0, <2>1, <2>2 DEF CommentsFollow, About
  <2>6. CommentsAreCurrent'
    <3>1. ~(prompt.on = "solution" /\ prompt.gen = g)
      BY <2>0, <2>2 DEF CommentsFollow
    <3> QED BY <2>2, <2>3, <3>1 DEF CommentsAreCurrent, Remarked
  <2>7. approved \/ solution_review_comments' = About("solution", g, remarks)
    BY <2>0, <2>1 DEF SolutionComments
  <2>8. /\ ticket_review_comments' = Remarked("tickets", tickets.gen)'
        /\ ~tickets_approved'
    BY <2>2, <2>4 DEF CommentsFollow
  <2> QED BY <2>1, <2>4, <2>5, <2>6, <2>7, <2>8 DEF CommentsFollow
<1>4. CASE PlanNode
  <2>0. PICK g \in Nat, h \in Nat : g = solution /\ h = tickets.gen
    BY <1>t
  <2>1. /\ tickets'.gen = h + 1 /\ solution' = g /\ node' = "plan_review_node"
        /\ UNCHANGED raised /\ node = "plan_node"
    BY <1>4, <2>0 DEF PlanNode, Tickets
  <2>2. /\ prompt'.on = "tickets" /\ prompt'.gen = h
        /\ prompt'.comments = Remarked("tickets", h)
    BY <1>4, <2>0, <2>1 DEF PlanNode, PlanPrompt, CommentsFollow
  <2>3. \A m \in raised : m.gen <= IF m.on = "solution" THEN g ELSE h
    BY <2>0 DEF CommentsFollow
  <2>4. Remarked("tickets", h + 1) = {}
    BY <1>t, <2>3 DEF Remarked
  <2>5. /\ Remarked("tickets", tickets.gen)' = {}
        /\ prompt'.comments = Remarked(prompt.on, prompt.gen)'
    BY <2>1, <2>2, <2>4 DEF Remarked
  <2>6. \A m \in raised' : m.gen <= IF m.on = "solution" THEN solution' ELSE tickets'.gen
    BY <1>t, <2>1, <2>3
  <2>7. h # h + 1
    OBVIOUS
  <2> QED BY <2>1, <2>2, <2>5, <2>6, <2>7 DEF CommentsFollow, CommentsAreCurrent
<1>5. CASE PlanReviewNode
  <2>0. PICK h \in Nat : h = tickets.gen
    BY <1>t
  <2>1. PICK approved \in BOOLEAN, remarks \in SUBSET Remarks :
          /\ raised' = raised \cup About("tickets", h, remarks)
          /\ ticket_review_comments' =
               IF approved THEN {} ELSE About("tickets", h, remarks)
          /\ tickets_approved' = approved
          /\ node' = IF approved THEN "reply_node" ELSE "plan_node"
    BY <1>5, <2>0 DEF PlanReviewNode, RoutePlanReview
  <2>2. node = "plan_review_node" /\ UNCHANGED <<solutionVars, tickets, prompt>>
    BY <1>5 DEF PlanReviewNode
  <2>3. /\ Remarked("tickets", h)' = Remarked("tickets", h) \cup About("tickets", h, remarks)
        /\ \A i, n : ~(i = "tickets" /\ n = h) => Remarked(i, n)' = Remarked(i, n)
    BY <2>1, RemarksStep
  <2>4. Remarked("tickets", tickets.gen)' = About("tickets", h, remarks)
    BY <2>0, <2>2, <2>3 DEF CommentsFollow, Remarked
  <2>5. \A m \in raised' : m.gen <= IF m.on = "solution" THEN solution' ELSE tickets'.gen
    BY <1>t, <2>0, <2>1, <2>2 DEF CommentsFollow, About
  <2>6. CommentsAreCurrent'
    <3>1. ~(prompt.on = "tickets" /\ prompt.gen = h)
      BY <2>0, <2>2 DEF CommentsFollow
    <3> QED BY <2>2, <2>3, <3>1 DEF CommentsAreCurrent, Remarked
  <2> QED BY <2>1, <2>4, <2>5, <2>6 DEF CommentsFollow
<1>6. CASE ReplyNode
  BY <1>6, <1>r DEF ReplyNode, CommentsFollow, CommentsAreCurrent
<1>7. CASE NodeFails \/ StepLimit
  BY <1>7, <1>r DEF NodeFails, StepLimit, CommentsFollow, CommentsAreCurrent
<1>8. CASE UNCHANGED graphVars
  BY <1>8, <1>r DEF graphVars, CommentsFollow, CommentsAreCurrent
<1> QED
  BY <1>1, <1>2, <1>3, <1>4, <1>5, <1>6, <1>7, <1>8 DEF GraphNext, GraphStep

(* The strengthened invariant holds in every state of every run.           *)
LEMMA GraphInvariant == GraphSpec => []GraphInv
<1>1. GraphInit => GraphInv
  BY DEF GraphInit, GraphInv, ApprovedSoFar, OnlyApprovedReplies,
         CommentsFollow, CommentsAreCurrent, Remarked, NoPrompt
<1>2. GraphTypeOK /\ GraphInv /\ [GraphNext]_graphVars => GraphInv'
  BY ApprovedStep, CommentsStep DEF GraphInv
<1> QED BY <1>1, <1>2, GraphTypeCorrect, PTL DEF GraphSpec

(* A reply presents an approved solution and approved tickets made from    *)
(* that very solution, however often either review loop ran.               *)
THEOREM RepliesAreApproved == GraphSpec => []OnlyApprovedReplies
<1>1. GraphInv => OnlyApprovedReplies
  BY DEF GraphInv
<1> QED BY <1>1, GraphInvariant, PTL

(* A generator is given exactly what was remarked on the generation it is  *)
(* asked to revise.                                                        *)
THEOREM CritiqueIsCurrent == GraphSpec => []CommentsAreCurrent
<1>1. GraphInv => CommentsAreCurrent
  BY DEF GraphInv
<1> QED BY <1>1, GraphInvariant, PTL
----------------------------------------------------------------------------
(* A run counts its nodes: none before the intent, one at least after it.  *)
StepsFollow ==
  /\ node = "intent_node" => steps = 0 /\ user_intent = "none"
  /\ node \in Running \ {"intent_node"} => steps > 0

(* Every run counts its nodes that way.                                    *)
LEMMA StepsInvariant == GraphSpec => []StepsFollow
<1>1. GraphInit => StepsFollow
  BY DEF GraphInit, StepsFollow
<1>2. GraphTypeOK /\ StepsFollow /\ [GraphNext]_graphVars => StepsFollow'
  <2> SUFFICES ASSUME GraphTypeOK, StepsFollow, [GraphNext]_graphVars
               PROVE  StepsFollow'
    OBVIOUS
  <2>1. ASSUME NEW n, Runs(n), node' # "intent_node"
        PROVE  StepsFollow'
    BY <2>1 DEF Runs, StepsFollow, GraphTypeOK
  <2>2. CASE IntentNode \/ SolutionNode \/ PlanNode \/ ReplyNode
    BY <2>1, <2>2 DEF IntentNode, SolutionNode, PlanNode, ReplyNode
  <2>3. CASE SolutionReviewNode \/ PlanReviewNode
    BY <2>1, <2>3 DEF SolutionReviewNode, PlanReviewNode, RoutePlanReview
  <2>4. CASE NodeFails \/ StepLimit
    BY <2>4 DEF NodeFails, StepLimit, StepsFollow, Running
  <2>5. CASE UNCHANGED graphVars
    BY <2>5 DEF graphVars, StepsFollow
  <2> QED BY <2>2, <2>3, <2>4, <2>5 DEF GraphNext, GraphStep
<1> QED BY <1>1, <1>2, GraphTypeCorrect, PTL DEF GraphSpec

(* Every step of a run is a step of the stream, or leaves it unchanged.    *)
LEMMA StreamStep ==
  ASSUME GraphTypeOK, StepsFollow, [GraphNext]_graphVars
  PROVE  [Stream!Next]_(Stream!vars)
<1> USE DEF solutionVars, ticketVars, StepsFollow
<1>t. steps \in Nat /\ Limit \in Nat /\ Limit > 0
  BY GraphAssumption DEF GraphTypeOK
<1>w. ASSUME NEW n \in Running \ {"intent_node"}, Runs(n),
             UNCHANGED user_intent,
             node' \in NodeNames \ {"intent_node", "failed"}
      PROVE  Stream!Work
  <2>1. node # "intent_node" /\ node \notin {"end", "failed"}
    BY <1>w DEF Runs, Running
  <2>2. /\ steps > 0 /\ steps < Limit /\ steps' = steps + 1
        /\ steps' - 1 = (steps - 1) + 1 /\ steps' - 1 # Limit
    BY <1>w, <1>t DEF Runs
  <2> QED BY <1>w, <1>t, <2>1, <2>2 DEF Stream!Work
<1>f. ASSUME node \in Running, node' = "failed", UNCHANGED <<user_intent, steps>>
      PROVE  Stream!Fail
  BY <1>f DEF Stream!Fail, Running
<1>1. CASE IntentNode
  <2>1. steps = 0 /\ steps' = 1 /\ user_intent' \in IntentNames
    BY <1>1 DEF IntentNode, Runs
  <2>2. Stream!Intent
    BY <1>1, <2>1 DEF Stream!Intent, IntentNode, Runs, IntentNames
  <2> QED BY <2>2 DEF Stream!Next
<1>2. CASE SolutionNode
  BY <1>2, <1>w DEF SolutionNode, NodeNames, Running, Stream!Next
<1>3. CASE SolutionReviewNode
  BY <1>3, <1>w DEF SolutionReviewNode, NodeNames, Running, Stream!Next
<1>4. CASE PlanNode
  BY <1>4, <1>w DEF PlanNode, NodeNames, Running, Stream!Next
<1>5. CASE PlanReviewNode
  BY <1>5, <1>w DEF PlanReviewNode, RoutePlanReview, NodeNames, Running, Stream!Next
<1>6. CASE ReplyNode
  BY <1>6, <1>w DEF ReplyNode, NodeNames, Running, Stream!Next
<1>7. CASE NodeFails \/ StepLimit
  BY <1>7, <1>f DEF NodeFails, StepLimit, LLMNodes, Stream!Next
<1>8. CASE UNCHANGED graphVars
  BY <1>8 DEF graphVars, Stream!vars
<1> QED
  BY <1>1, <1>2, <1>3, <1>4, <1>5, <1>6, <1>7, <1>8 DEF GraphNext, GraphStep

(* A run of the graph implements the update stream ChatService consumes.   *)
THEOREM GraphIsUpdateStream == GraphSpec => IsUpdateStream
<1>1. GraphInit => Stream!Init
  BY DEF GraphInit, Stream!Init
<1> QED
  BY <1>1, StreamStep, GraphTypeCorrect, StepsInvariant, PTL
     DEF GraphSpec, IsUpdateStream, Stream!Spec
=============================================================================
