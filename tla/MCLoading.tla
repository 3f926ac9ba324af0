------------------------------ MODULE MCLoading -------------------------------
EXTENDS Loading

CONSTANTS a, b, c, d, episode

\* The first service has a file of a, the second has none; both send b,
\* which has no file that can be played, to d, which has none, and to c, whose
\* identifier for the key is d.
Entry(formats, gid, alts) == [formats |-> formats, gid |-> gid, alts |-> alts]
MCCatalogue ==
  [extended |->
     [g \in {a, b, c, d} |->
        CASE g = a -> Entry({1}, None, <<>>)
          [] g = b -> Entry({4}, b, <<d, c>>)
          [] g = c -> Entry({0, 2}, d, <<>>)
          [] g = d -> Entry({}, d, <<>>)],
   legacy |->
     [g \in {a, b, c, d} |->
        CASE g = a -> Entry({}, None, <<d>>)
          [] g = b -> Entry({}, None, <<d, c>>)
          [] g = c -> Entry({0}, d, <<>>)
          [] g = d -> Entry({}, d, <<>>)]]
=============================================================================
