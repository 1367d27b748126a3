----------------------------- MODULE FileLimits -----------------------------
(***************************************************************************)
(* The sizes that decide whether a file may be uploaded: the MCP server's  *)
(* limit on a request body (mcp/server.py) and its cap on a decoded file   *)
(* (mcp/tools.py), then the backend's cap on the declared length and on    *)
(* the bytes received into staging (backend/storage.py).                   *)
(*                                                                         *)
(* One upload is followed from its client to its answer.  It comes as the  *)
(* body of a PUT, or as base64 in an MCP tool call, where the encoding may *)
(* be wrapped in lines.                                                    *)
(***************************************************************************)
EXTENDS Naturals

CONSTANTS
    McpCap,      \* max_file_bytes of the MCP server
    UploadCap,   \* max_upload_bytes of the backend
    MaxSize,     \* bound: the largest file anybody tries to upload
    MaxChunk     \* bound: the largest piece of a body the backend is handed

ASSUME Sizes == McpCap \in Nat /\ UploadCap \in Nat /\ MaxSize \in Nat /\ MaxChunk \in Nat \ {0}

VARIABLES
    size,       \* the file's bytes
    via,        \* the way it takes
    wrapped,    \* the base64 text is in lines of 76 characters
    envelope,   \* the bytes of the tool call around the text, at most 64 KiB
    declared,   \* the PUT has a Content-Length
    received,   \* the bytes in the staging file
    at          \* where the upload is

vars == <<size, via, wrapped, envelope, declared, received, at>>

(***************************************************************************)
(* The encoding, as a client makes it: 4 characters for every 3 bytes or   *)
(* part of them, and for every line or part of one a newline, which JSON   *)
(* writes as two characters.                                               *)
(***************************************************************************)
Base64(n) == 4 * ((n + 2) \div 3)
Newlines(n) == 2 * ((Base64(n) + 75) \div 76)
ContentLength == Base64(size) + (IF wrapped THEN Newlines(size) ELSE 0) + envelope

\* Mutant: no room for the newlines of a wrapped text.
RequestBodyLimit_OneLine(max_file_bytes) == 4 * ((max_file_bytes + 2) \div 3) + 64 * 1024

\* request_body_limit
RequestBodyLimit(max_file_bytes) ==
    LET encoded == 4 * ((max_file_bytes + 2) \div 3)
        lines   == (encoded + 75) \div 76
    IN  encoded + 2 * lines + 64 * 1024

Init ==
    /\ size \in 0 .. MaxSize
    /\ via \in {"mcp", "put"}
    /\ wrapped \in BOOLEAN
    /\ envelope \in {0, 64 * 1024}
    /\ declared \in BOOLEAN
    /\ via = "put" => ~wrapped /\ envelope = 0
    /\ via = "mcp" => declared
    /\ received = 0
    /\ at = IF via = "mcp" THEN "gate" ELSE "backend"

Go(to) == at' = to /\ UNCHANGED <<size, via, wrapped, envelope, declared>>

\* _check_declared_length: the request's Content-Length against the limit.
GateAdmits == at = "gate" /\ ContentLength <= RequestBodyLimit(McpCap) /\ Go("tool") /\ UNCHANGED received
GateRefuses == at = "gate" /\ ContentLength > RequestBodyLimit(McpCap) /\ Go("refused") /\ UNCHANGED received

\* upload_file of the tools: the text is decoded, whatever its line breaks, and
\* the bytes are sent on with their length.
ToolSends == at = "tool" /\ size <= McpCap /\ Go("backend") /\ UNCHANGED received
ToolRefuses == at = "tool" /\ size > McpCap /\ Go("refused") /\ UNCHANGED received

\* write_file compares the declared length with the cap before a byte is read.
DeclaredFits == ~declared \/ size <= UploadCap
BackendOpens == at = "backend" /\ DeclaredFits /\ Go("staging") /\ UNCHANGED received
BackendRefuses == at = "backend" /\ ~DeclaredFits /\ Go("refused") /\ UNCHANGED received

\* _stage: the bytes received are over the cap.
TooLong(n) == n > UploadCap

\* One chunk, an empty one skipped, written when it keeps within the cap.
StageChunk(n) ==
    /\ at = "staging" /\ received + n <= size /\ ~TooLong(received + n)
    /\ received' = received + n
    /\ Go("staging")

StageRefuses(n) ==
    /\ at = "staging" /\ received + n <= size /\ TooLong(received + n)
    /\ Go("refused") /\ received' = 0

\* The body ends; the staging file becomes the site's.
Stored == at = "staging" /\ received = size /\ Go("stored") /\ UNCHANGED received

Next ==
    \/ GateAdmits \/ GateRefuses
    \/ ToolSends \/ ToolRefuses
    \/ BackendOpens \/ BackendRefuses
    \/ \E n \in 1 .. MaxChunk : StageChunk(n) \/ StageRefuses(n)
    \/ Stored

Spec == Init /\ [][Next]_vars

(***************************************************************************)
(* Properties                                                              *)
(***************************************************************************)

TypeOK ==
    /\ size \in Nat /\ envelope \in {0, 64 * 1024} /\ received \in Nat
    /\ via \in {"mcp", "put"} /\ wrapped \in BOOLEAN /\ declared \in BOOLEAN
    /\ at \in {"gate", "tool", "backend", "staging", "stored", "refused"}

\* The caps on the way of a file.
Fits == size <= UploadCap /\ (via = "mcp" => size <= McpCap)

\* Whether a file is stored depends on its size and the caps of its way alone:
\* at the cap it is stored, one byte above it is refused, whatever the line
\* wrapping of the base64 text, the envelope, the declared length and the
\* pieces its body arrives in; of a refused file nothing is left in staging
\* (request_body_limit, _decode, write_file, _stage).
OutcomeBySize ==
    /\ at = "stored" => Fits /\ received = size
    /\ at = "refused" => ~Fits /\ received = 0
=============================================================================
