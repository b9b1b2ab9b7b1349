----------------------------- MODULE MC_DPOChatML -----------------------------
EXTENDS DPOChatML

\* Two roles and two contents: contexts that agree, that differ in a role
\* or in a content, and last messages from either role.
MCRoles == {"user", "assistant"}
MCContents == {"a", "b"}
=============================================================================
