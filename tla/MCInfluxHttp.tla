---------------------------- MODULE MCInfluxHttp ----------------------------
(***************************************************************************)
(* Answers of InfluxDB: rows in chunks, one of which has a hexadecimal     *)
(* length, bodies that look like the framing, a length of two digits, a    *)
(* document without rows, an error with a document, and no body at all.    *)
(***************************************************************************)
EXTENDS InfluxHttp

Reply(status, framing, chunks, rows) ==
  [status |-> status, framing |-> framing, chunks |-> chunks, rows |-> rows]

Long == <<TEXT, CR, LF, 0, CR, LF, CR, LF, TEXT, CHUNKED, 1, TEXT, 2, TEXT, 3, LF, TEXT>>

SomeAnswers ==
  {Reply(200, "chunked", <<Long, <<7, CR>>>>, TRUE),
   Reply(200, "length", <<Long>>, TRUE),
   Reply(206, "chunked", <<<<TEXT>>>>, TRUE),
   Reply(200, "length", <<<<TEXT, 3>>>>, FALSE),
   Reply(401, "length", <<<<TEXT, CR>>>>, FALSE),
   Reply(204, "none", <<>>, FALSE)}
=============================================================================
