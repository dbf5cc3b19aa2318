---------------------------- MODULE MC_Framing ----------------------------
(* Instances of Framing for TLC. *)
EXTENDS Framing

CONSTANTS city, county, school

AllTenants == {city, county, school}
Delimiters == [t \in AllTenants |-> IF t = city THEN "CR" ELSE IF t = county THEN "LF" ELSE "CRLF"]
Detection == [t \in AllTenants |-> t # school]

Everything == RequestCodes \cup ResponseCodes
AllSupported == [t \in AllTenants |-> IF t = school THEN Everything \ {"35"} ELSE Everything]

Ask(code, fixed, fields, seq) == [code |-> code, fixed |-> fixed, fields |-> fields, seq |-> seq]
CN == Field("CN", 8, 410)
CO == Field("CO", 8, 420)
AA == Field("AA", 16, 900)
Login == Ask("93", 2, <<CN, CO>>, "1")
(* A patron whose name, or barcode, has the letters AY in it.               *)
Named == Ask("11", 38, <<Unit("AA", 12, 700, "AY"), Field("AB", 10, 600)>>, "3")
(* One whose barcode has the letters AZ in it.                              *)
Zed == Ask("65", 18, <<Unit("AA", 12, 700, "AZ")>>, "3")
Leave == Ask("35", 18, <<AA>>, "3")
Item == Ask("17", 18, <<Field("AB", 10, 600)>>, "0")
Block == Ask("01", 0, <<AA>>, "2")
(* Too long for the gateway. *)
Big == Ask("63", 31, <<Field("AA", 60, 3000)>>, "2")
(* A request without the field its handler needs. *)
Nobody == Ask("63", 31, <<>>, "2")

Session == {Login, Named, Leave}
Mixed == {Item, Block, Nobody, Zed, Big}
Everyday == Session \cup Mixed
AllTerminators == {"CR", "LF", "CRLF"}
===========================================================================
