------------------------------- MODULE MCStack -------------------------------
(***************************************************************************)
(* Instances of Stack for TLC: the environments of the bridges.            *)
(***************************************************************************)
EXTENDS Stack

\* docker-compose.yml with what is missing in it.
CompletedEnvironment ==
    [ComposeEnvironment EXCEPT !["publisher"] = @ \cup {"DIFY", "N8N"},
                               !["policy"] = @ \cup {"SUPABASE_DB_DSN"}]

=============================================================================
