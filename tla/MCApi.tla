------------------------------- MODULE MCApi --------------------------------
(* Every route and the chat thread, in combinations of those that differ in  *)
(* the mutexes they hold while they wait, and a node that may be restarted.  *)
EXTENDS Api

MCMixes ==
    {<<"connected_ips", "nodes_location", "signup", "bitcoin">>,
     <<"nodes_location", "get", "chat_event", "country">>,
     <<"connected_nodes", "set", "put_msg", "node_infos">>}

=============================================================================
