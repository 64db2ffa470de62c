--------------------------- MODULE MCEntityLifecycle ---------------------------
EXTENDS EntityLifecycle

MCEntities == {"p", "q", "s", "c", "v"}
MCKind == [p |-> "publisher", q |-> "publisher", s |-> "subscription", c |-> "client", v |-> "service"]
MCTopicOf == [p |-> "chatter", q |-> "chatter", s |-> "chatter", c |-> "add", v |-> "add"]
================================================================================
