SPECIFICATION Spec
CONSTANTS
    white = white
    brown = brown
    flour = flour
    red = red
    blue = blue
    lamp = lamp
    cake = cake
    shop = shop
    store = store
    Goods = {white, brown, red, blue, cake}
    Products = {flour, lamp, cake}
    ProductOf <- MCProductOf
    Warehouses = {shop, store}
    Tracked = {flour}
    Serial = {lamp}
    Varied = {white, brown, red, blue}
    Counters = {"journal_entry", "pos_transaction", "goods_receipt"}
    Requests = {r1, r2, r3}
    r1 = r1
    r2 = r2
    r3 = r3
    Operations <- MCOperations
    Stocked <- MCStocked
ACTION_CONSTRAINT BeginInOrder
INVARIANTS NumbersRunOn OneRowPerKey 
PROPERTIES StockIsPromised RequestsEnd
CHECK_DEADLOCK FALSE
