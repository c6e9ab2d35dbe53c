------------------------------ MODULE MCShell ------------------------------
EXTENDS Shell

MCProcs == 0..5
MCQuietLines ==
    {<<"cd">>, <<"a", "|", "(", "a", ";", "a", ")">>, <<"a", "|", "a", "|", "a">>,
     <<"a", "<", "f", "|", "a", ">", "f">>, <<"a", "&", ";", "a">>, <<"a", ")">>}
MCLines == MCQuietLines \cup {<< >>, <<"a", "|", "a">>}
=============================================================================
