------------------------------ MODULE HandlesMC ------------------------------
(* The scenarios of Handles for TLC: kinds of handles that interact, each   *)
(* with the blocks of memory for them.                                      *)
EXTENDS Handles

CONSTANTS h1, h2, h3, h4, h5

HandleScenarios ==
    { [lob |-> {h1, h2}, shared |-> {}, closeFails |-> {}],
      [objectType |-> {h1, h2}, objectAttr |-> {h3}],
      [objectType |-> {h1, h2}, object |-> {h3, h4}, closeFails |-> {}],
      [objectType |-> {h1}, object |-> {h2}, lob |-> {h3}, closeFails |-> {}],
      [objectType |-> {h1}, object |-> {h2, h3}, msgProps |-> {h4}],
      [json |-> {h1}, msgProps |-> {h2}, deqOptions |-> {h3},
       enqOptions |-> {h4}],
      [queue |-> {h1}, msgProps |-> {h2}, own |-> {h3, h4, h5}],
      [jsonQueue |-> {h1}, own |-> {h2, h3, h4}, closeFails |-> {}],
      [queue |-> {h1}, objectType |-> {h2}, own |-> {h3, h4, h5}],
      [sodaDb |-> {h1}, sodaColl |-> {h2}, sodaDoc |-> {h3, h4},
       closeFails |-> {}],
      [sodaDb |-> {h1}, sodaColl |-> {h2}, sodaCollCursor |-> {h3},
       sodaDocCursor |-> {h4}, sodaDoc |-> {h5}],
      [lobVar |-> {h1}, lob |-> {h2}, own |-> {h3}],
      [lobVar |-> {h1}, dml |-> {h2}, own |-> {h3, h4}],
      [stmtVar |-> {h1}, plsql |-> {h2}, own |-> {h3, h4}],
      [stmtVar |-> {h1, h2}, own |-> {h3, h4}],
      [objectVar |-> {h1}, objectType |-> {h2}, object |-> {h3},
       dml |-> {h4}, bindValue |-> {}, own |-> {h5}],
      [objectVar |-> {h1}, objectType |-> {h2}, query |-> {h3}, own |-> {h4}],
      [rowidVar |-> {h1, h2}, dml |-> {h3}, rowid |-> {}, own |-> {h4, h5},
       closeFails |-> {}],
      [bytesVar |-> {h1}, plsql |-> {h2}, own |-> {h3, h4}, closeFails |-> {}],
      [lobVar |-> {h1}, query |-> {h2}, reExecute |-> {},
       releaseFails |-> {}, closeFails |-> {}, own |-> {h3}],
      [tpc |-> {}] }

(* A statement with a column of LOBs. *)
ClosedWithStmts == { [lobVar |-> {h1}, query |-> {h2}, own |-> {h3}] }
=============================================================================
