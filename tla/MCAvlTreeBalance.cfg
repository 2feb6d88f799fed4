CONSTANTS n1 = n1  n2 = n2  n2b = n2b  n3 = n3  n4 = n4  n5 = n5  n6 = n6
          Null = Null  MaxHeld = 1  MaxReused = 3
CONSTANT Elem <- MCElem
CONSTANT Key <- MCKey
CONSTANT GetKey <- MCGetKey
SPECIFICATION Spec
INVARIANT AlwaysBalanced
CHECK_DEADLOCK FALSE
