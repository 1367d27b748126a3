---------------------------- MODULE MCMcpServer ----------------------------
(***************************************************************************)
(* Instances of McpServer for TLC: a content within the cap, one above it. *)
(***************************************************************************)
EXTENDS McpServer, TLC

SizeOf(c) == IF c = "large" THEN 2 ELSE 1

\* A well-formed call of a tool, without its flag, on the small content.
Plain(t, tool) ==
    [form |-> "ok", bearer |-> t, tool |-> tool, args |-> "valid", flag |-> FALSE, content |-> "small"]

\* Every tool with the arguments that matter to it.
ToolCalls ==
    {Plain(t, tool) : t \in Tokens, tool \in Tools \cup {"list_tools", "unknown"}}
      \cup {[Plain(t, tool) EXCEPT !.flag = TRUE] :
               t \in Tokens, tool \in {"upload_file", "delete_folder", "delete_site"}}
      \cup {[Plain(t, "upload_file") EXCEPT !.flag = TRUE, !.content = "large"] : t \in Tokens}
      \cup {[Plain(t, "delete_file") EXCEPT !.args = a] :
               t \in Tokens, a \in {"outside_schema", "bad_slug", "bad_path"}}

\* With the requests the gate refuses before it asks the backend.
AllCalls == ToolCalls \cup {[Plain(t, "list_tools") EXCEPT !.form = f] : t \in Tokens, f \in Forms}

\* One call may be any, a second one, made before, after or meanwhile, one of those whose order
\* matters most.
CONSTANT c1
Mixed(c) ==
    IF c = c1 THEN AllCalls
    ELSE {Plain(t, "list_tools") : t \in Tokens} \cup {[Plain(t, "upload_file") EXCEPT !.flag = TRUE] : t \in Tokens}
=============================================================================
