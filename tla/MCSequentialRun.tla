-------------------------- MODULE MCSequentialRun --------------------------
(* Instances of SequentialRun for TLC: the pipelines that are run. *)
EXTENDS SequentialRun

Step(model, fallbacks, prompt, external, from) ==
  [model |-> model, fallbacks |-> fallbacks, prompt |-> prompt, external |-> external,
   from |-> from]

(* An image, its edit, and the image asked for again with the models       *)
(* swapped: the first and the last step share cache entries.               *)
Edit == [steps |-> <<Step("a", <<"b">>, 1, TRUE, <<>>),
                     Step("b", <<>>, 2, FALSE, <<>>),
                     Step("b", <<"a">>, 1, TRUE, <<>>)>>,
         chain |-> TRUE, failFast |-> TRUE, moderated |-> TRUE]

(* A source, an edit of it, and a step that combines the two. *)
Mux == [steps |-> <<Step("a", <<>>, 1, TRUE, <<>>),
                    Step("a", <<"b">>, 2, FALSE, <<>>),
                    Step("mux", <<>>, 3, FALSE, <<2, 1>>)>>,
        chain |-> TRUE, failFast |-> FALSE, moderated |-> FALSE]

Both == {Edit, Mux}

Single == {[steps |-> <<Step("a", <<"b">>, 1, TRUE, <<>>)>>,
            chain |-> FALSE, failFast |-> TRUE, moderated |-> FALSE]}

=============================================================================
