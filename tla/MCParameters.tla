---------------------------- MODULE MCParameters ----------------------------
(* The three options of the server, with a name before, between and behind *)
(* each two of them, texts around both limits of the string options, and   *)
(* one argument more than the table has strings for.                       *)
EXTENDS Parameters

\* --db-hostname, --db-username, --db-password
ServerOptions == <<2, 6, 4>>
ServerKinds == <<"ip", "string", "string">>
ServerMin == <<0, 4, 4>>
ServerMax == <<1024, 64, 64>>

\* By their sizes; nine characters are an address.
TextSizes == [t \in Texts |-> CASE t = "empty" -> 0 [] t = "three" -> 3
                                [] t = "four" -> 4 [] t = "address" -> 9
                                [] t = "longest" -> 64 [] t = "too_long" -> 65]

=============================================================================
