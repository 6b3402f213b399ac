------------------------------- MODULE MCConfig -------------------------------
(* A small instance of Config: files of up to three lines, with and without  *)
(* a newline at the end, some larger than the scanner's first buffer.        *)
EXTENDS Config

Lines == {<<"discovery.port", "1">>, <<"discovery.port", "2", "2">>,
          <<"soa_key", "p", Space, "1">>, <<"1", "2">>,
          <<"service.running_service_file_dir_path", "p", "p", "p", "p", "p", "p", "p">>}

MCTexts ==
  LET Ended(l) == l \o <<Newline>>
      Mixed == <<"discovery.multicast_address", "1", "p", Newline>>
  IN  {Ended(l) : l \in Lines} \cup {Ended(l) \o m : l, m \in Lines}
      \cup {Ended(k) \o Ended(l) \o Ended(m) : k, l, m \in Lines}
      \cup {<<>>, Mixed, <<"soa_key">> \o [k \in 1..16 |-> "p"]}
MCNumbers == {<<"1">>, <<"2", "2">>}
MCAddresses == {<<"1", "2">>}
MCSetValues == {<<"1">>, <<>>}
=============================================================================
