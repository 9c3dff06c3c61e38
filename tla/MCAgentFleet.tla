---------------------------- MODULE MCAgentFleet ----------------------------
EXTENDS AgentFleet

\* All catalogs over these edges: chains, a diamond, two cycles.
MCEdges == {<<"a", "b">>, <<"a", "c">>, <<"b", "c">>, <<"b", "d">>, <<"c", "d">>,
            <<"d", "b">>, <<"c", "a">>}
MCCatalogs == SUBSET MCEdges
=============================================================================
