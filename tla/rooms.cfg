SPECIFICATION Spec
CONSTANTS
 u1=u1
 u2=u2
 r1=r1
 r2=r2
 i1=i1
 i2=i2
 None=None
 Users={u1,u2}
 Requests={r1,r2}
 SessionIds={k1,k2}
 ResetIds={t1}
 Passwords={"p"}
 RowIds={i1,i2}
 Names={"n"}
 StartBalance=1
 JoinLate=TRUE
SYMMETRY Symmetric
INVARIANTS MembersAreDistinct StartIsWhole SpendingIsKept OneResetPerToken
