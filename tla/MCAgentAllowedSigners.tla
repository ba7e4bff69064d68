------------------------ MODULE MCAgentAllowedSigners ------------------------
EXTENDS AgentAllowedSigners

\* An empty answer, a list where one key is listed for two principals, and
\* a list with only the other key.
MCLists ==
    { << >>,
      << <<"alice", "ka">>, <<"bob", "ka">>, <<"bob", "kb">> >>,
      << <<"bob", "kb">> >> }
=============================================================================
