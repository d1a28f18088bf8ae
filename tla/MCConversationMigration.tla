----------------------- MODULE MCConversationMigration -----------------------
EXTENDS ConversationMigration
\* A message and what is derived from it; a row that does not normalize before one.
MCBackup == {<<"message", "graph">>, <<"message", "profile">>, <<"message", "memory">>,
               <<"message", "message">>, <<"bad", "message">>}
MCRowSources == <<{}, {1}>>
=============================================================================
