------------------------------ MODULE MCBoard -------------------------------
(***************************************************************************)
(* Model values for Board: nights around the leap day and New Year's, in   *)
(* which some departures fall on the next day; trains that have left, are  *)
(* cancelled, late or listed twice, in more minutes than the row has       *)
(* columns; buses early, late and off the scale.                           *)
(* The centred lines measure what the pictures of src/docs/screenshots     *)
(* show of them, the long name what its characters would take.             *)
(***************************************************************************)
EXTENDS Board

Date(y, m, d) == [y |-> y, m |-> m, d |-> d]
MCDates == {Date(2028, 2, 27), Date(2028, 2, 28), Date(2028, 2, 29), Date(2028, 3, 1),
            Date(2025, 12, 31), Date(2026, 1, 1), Date(2026, 1, 2)}
Start(date, tod) == DayNumber(date) * 86400 + tod
\* 23:59 in the zone the server writes in
MCWorlds == {[start |-> Start(Date(2028, 2, 29), 82770), zone |-> 3600],
             [start |-> Start(Date(2026, 1, 1), 17970), zone |-> -18000]}

Train(plan, real, cancelled) == [plan |-> plan, real |-> real, cancelled |-> cancelled]
MCTrains == {Train(<<-40>>, <<>>, FALSE), Train(<<-40>>, <<90>>, FALSE),
             Train(<<70>>, <<>>, TRUE), Train(<<20>>, <<>>, FALSE), Train(<<190>>, <<400>>, FALSE),
             Train(<<310>>, <<>>, FALSE)}

MCStops == {"TULL_HIETZING", "ENDEMANN"}
MCLines == {[name |-> "58A", towards |-> "Hietzing"], [name |-> "58A", towards |-> "Atzgersdorf"],
            [name |-> "58B", towards |-> "Atzgersdorf"]}
Bus(plan, real) == [plan |-> plan, real |-> real]
MCBusTimes == {Bus(<<60>>, <<-10>>), Bus(<<60>>, <<510>>), Bus(<<400>>, <<95>>), Bus(<<>>, <<160>>),
               Bus(<<220>>, <<>>), Bus(<<>>, <<>>), Bus(<<300>>, <<600>>)}

\* a short name and one of full length, each in two spellings
Long == "zuhause-wlan-im-zweiten-stock-05"
LongToo == "zuhause-WLAN-im-zweiten-stock-05"
MCSsids == {"A-NET2", "a-net2", Long, LongToo}
MCLowerCase == ("A-NET2" :> "a-net2") @@ ("a-net2" :> "a-net2") @@ (Long :> Long) @@ (LongToo :> Long)

MCTextWidth ==
  [TG |-> ("88:88" :> 85), EG |-> ("88:88" :> 67), SB |-> ("88:88" :> 56) @@ ("--:--" :> 52),
   Dir |-> ("Atzgersdorf" :> 74) @@ ("Hietzing" :> 56),
   Label |-> ("Hbf" :> 15) @@ ("Atzg" :> 20) @@ ("Ende" :> 20) @@ ("Tull" :> 20) @@ ("Hietz" :> 25)
               @@ ("upd 88:88" :> 45),
   Title |-> ("fixed" :> 190),
   Sub |-> ("fixed" :> 323) @@ ("Falsches Passwort" :> 198) @@ ("A-NET2" :> 64) @@ ("a-net2" :> 54)
             @@ (Long :> 250) @@ (LongToo :> 265),
   Foot |-> ("fixed" :> 205) @@ ("Schreibweise?" :> 97) @@ ("gesucht:" :> 48) @@ ("gesucht: ," :> 54)
              @@ ("dBm" :> 40) @@ ("A-NET2" :> 39) @@ ("a-net2" :> 32) @@ (Long :> 160) @@ (LongToo :> 170)]
MCTextHeight == [TG |-> 28, EG |-> 22, SB |-> 18, Dir |-> 10, Label |-> 7,
                 Title |-> 19, Sub |-> 18, Foot |-> 10]
=============================================================================
