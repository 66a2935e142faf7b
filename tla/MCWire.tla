------------------------------- MODULE MCWire -------------------------------
(* Small inputs for the NDJSON codec: the bytes that need escaping, a      *)
(* message that escape_json_str must cut before an escape that does not   *)
(* fit, a NULL exception text, headers JSON with an escaped quote, an     *)
(* empty and a non-empty base64 body.                                     *)
EXTENDS Wire

MCWorkerIds == {<<"w">>}
MCIds == {<<"a">>, <<"b">>}
MCLevels == {<<"i", "n", "f", "o">>}
MCCodes == {<<"C">>}
MCStatuses == {<<"2", "0", "0">>, <<"0">>}
MCHeaderTexts == {EmptyObject, <<"{", Q, "k", Q, ":", Q, "v", BS, Q, Q, "}">>}
MCBodies == {<<>>, <<"Y", "Q", "=", "=">>}

\* Messages the console may pass: escaped quote, CR, and one that is cut.
MCMessages == {<<"a", Q>>, <<"\r">>, <<BS, "\n", "\r">>}
\* Exception texts with nothing to escape, and a NULL one.
MCErrors == {<<"e">>, NullText}
\* A quote in an exception text.
MCErrorsQuote == {<<"u", Q, "x">>}
\* A tab in a console message.
MCMessagesTab == {<<"a", "\t">>}
\* An invoke id with a quote in it (JSON "a\"b" on stdin).
MCIdsQuote == {<<"a", Q, "b">>}
\* Headers JSON longer than the response payload buffer leaves room for.
MCHeaderTextsLong == {<<"{", Q, "k", Q, ":", Q, "v", "v", "v", "v", Q, "}">>}
=============================================================================
